---------------------------- MODULE Spec2Model ----------------------------
(***************************************************************************)
(* A model of the note / quiz pipeline of pintar-ai:                       *)
(*   - services/geminiService.ts : getApiKey, getAIClient,                 *)
(*     generateNoteSummary, regenerateQuiz                                 *)
(*   - the App component (handleCreateNote) and the db wrapper             *)
(*   - NoteDetailPage.calculateScore and ChatBubble's QuizView.score       *)
(*                                                                         *)
(* Strings are sequences of atoms.  An atom stands for one character,      *)
(* except that a fixed literal of the program (the "JUDUL:" marker, the    *)
(* triple backtick, the word json, a fixed message) is abbreviated to one  *)
(* atom.  JavaScript values are tagged records [k, v].                     *)
(***************************************************************************)
EXTENDS Integers, Sequences, FiniteSets, TLC

VARIABLES
    localKey,       \* localStorage 'gemini_api_key' (NoKey when absent)
    viteKey,        \* import.meta.env.VITE_API_KEY
    procKey,        \* process.env.API_KEY
    today,          \* new Date().toLocaleDateString()
    pc,             \* where the note-creation handler is suspended
    isCreatingNote, \* App state isCreatingNote
    contextText,    \* contextFromTextFiles of the running handleCreateNote
    images,         \* processedFiles (number of visual files) of the running handler
    ai,             \* generateNoteSummary's client: getAIClient() was not null
    calls,          \* model calls issued by the latest generateNoteSummary
    contentResp,    \* what the content call settled with
    quizResp,       \* what the quiz call settled with
    summary,        \* outcome of generateNoteSummary
    notes,          \* App state notes (newest first) = the notes store
    hpc,            \* harness: position of the function under study
    hIn,            \* harness: its input
    hOut,           \* harness: its output
    input,          \* App state input (the text area)
    selectedFiles,  \* App state selectedFiles (the type of each file)
    previewUrls,    \* App state previewUrls (the type in each data URL)
    reading,        \* FileReader loads started by processFileSelection, not yet done
    converting,     \* processFileSelection loops extracting text, not yet done
    isLoading,      \* App state isLoading (the busy flag)
    isRecording,    \* App state isRecording
    isCreatingQuiz, \* App state isCreatingQuiz
    quizJob,        \* the handleCreateQuiz awaiting regenerateQuiz, with its closure
    messages,       \* App state messages
    currentSessionId, \* App state currentSessionId (0 is null)
    sessions,       \* App state sessions
    db,             \* the persisted sessions, by id
    clock,          \* Date.now()
    sends           \* the handleSend calls that passed the gate, in order

noteVars == <<localKey, viteKey, procKey, today, pc, isCreatingNote,
              contextText, images, ai, calls, contentResp, quizResp, summary, notes>>
harnessVars == <<hpc, hIn, hOut>>
chatVars == <<input, selectedFiles, previewUrls, reading, converting, isLoading,
              isRecording, isCreatingQuiz, quizJob, messages, currentSessionId,
              sessions, db, clock, sends>>
vars == <<localKey, viteKey, procKey, today, pc, isCreatingNote,
          contextText, images, ai, calls, contentResp, quizResp, summary,
          notes, hpc, hIn, hOut, input, selectedFiles, previewUrls, reading,
          converting, isLoading, isRecording, isCreatingQuiz, quizJob, messages,
          currentSessionId, sessions, db, clock, sends>>

-----------------------------------------------------------------------------
(* Bounds of the model *)

\* longest raw content text enumerated for the content-parsing step
MaxRawLen == 4
\* most notes created in one run
MaxNotes == 1
\* most questions of one kind in an enumerated quiz payload
MaxPerKind == 1
\* most questions in a quiz handed to the scoring functions
MaxQuiz == 3
\* most files picked in one file dialog of the notes pages
MaxPicked == 2
\* most handleSend calls that pass the gate in one run of the chat page
MaxSends == 2
\* most chunks delivered by one response stream
MaxChunks == 2
\* most attachments waiting in the chat input, and most documents being
\* converted, at one time
MaxAttach == 1
\* most note updates waiting for their store write
MaxUpdates == 2

-----------------------------------------------------------------------------
(* Atoms and string helpers *)

NL == "\n"
SP == " "
MarkerUpper == "JUDUL:"
MarkerLower == "judul:"

\* /^JUDUL:/i matches the marker in any letter case
IsMarker(c) == c \in {MarkerUpper, MarkerLower}
\* the characters of \s and of String.prototype.trim that the alphabet has
IsSpace(c) == c \in {SP, NL}

Drop(s, n) == SubSeq(s, n + 1, Len(s))
Take(s, n) == SubSeq(s, 1, n)

\* number of leading atoms of s that satisfy IsSpace
LeadingSpaces(s) ==
    IF \A i \in 1..Len(s) : IsSpace(s[i]) THEN Len(s)
    ELSE (CHOOSE i \in 1..Len(s) :
             /\ ~IsSpace(s[i])
             /\ \A j \in 1..(i - 1) : IsSpace(s[j])) - 1

\* number of trailing atoms of s that satisfy IsSpace
TrailingSpaces(s) ==
    IF \A i \in 1..Len(s) : IsSpace(s[i]) THEN Len(s)
    ELSE Len(s) - (CHOOSE i \in 1..Len(s) :
                      /\ ~IsSpace(s[i])
                      /\ \A j \in (i + 1)..Len(s) : IsSpace(s[j]))

\* String.prototype.trim
Trim(s) ==
    IF \A i \in 1..Len(s) : IsSpace(s[i]) THEN <<>>
    ELSE SubSeq(s, LeadingSpaces(s) + 1, Len(s) - TrailingSpaces(s))

\* length of the longest prefix of s without a line break: what .* consumes
LineLen(s) ==
    IF \A i \in 1..Len(s) : s[i] # NL THEN Len(s)
    ELSE (CHOOSE i \in 1..Len(s) :
             /\ s[i] = NL
             /\ \A j \in 1..(i - 1) : s[j] # NL) - 1

-----------------------------------------------------------------------------
(* generateNoteSummary: the content-parsing step *)

DefaultTitle == <<"Ringkasan Materi">>

\* rawText.match(/^JUDUL:\s*(.*)/i): no m flag, so ^ is the start of the text;
\* \s* is greedy and consumes line breaks too; (.*) stops at a line break.
TitleMatch(rawText) ==
    IF Len(rawText) > 0 /\ IsMarker(rawText[1])
    THEN LET afterMarker == Tail(rawText)
             afterSpaces == Drop(afterMarker, LeadingSpaces(afterMarker))
         IN  [matched |-> TRUE, group |-> Take(afterSpaces, LineLen(afterSpaces))]
    ELSE [matched |-> FALSE, group |-> <<>>]

\* variant: the pattern is not anchored, the first marker found anywhere is
\* removed with the rest of its line
RemoveTitleLineUnanchored(rawText) ==
    IF \E i \in 1..Len(rawText) : IsMarker(rawText[i])
    THEN LET at == CHOOSE i \in 1..Len(rawText) :
                      /\ IsMarker(rawText[i])
                      /\ \A j \in 1..(i - 1) : ~IsMarker(rawText[j])
             afterMarker == Drop(rawText, at)
             afterLine == Drop(afterMarker, LineLen(afterMarker))
         IN  Take(rawText, at - 1)
             \o (IF Len(afterLine) > 0 /\ afterLine[1] = NL
                 THEN Tail(afterLine) ELSE afterLine)
    ELSE rawText

\* rawText.replace(/^JUDUL:.*\n?/i, ''): the marker, the rest of its line and
\* at most one line break are removed
RemoveTitleLine(rawText) ==
    IF Len(rawText) > 0 /\ IsMarker(rawText[1])
    THEN LET afterMarker == Tail(rawText)
             afterLine == Drop(afterMarker, LineLen(afterMarker))
         IN  IF Len(afterLine) > 0 /\ afterLine[1] = NL
             THEN Tail(afterLine) ELSE afterLine
    ELSE rawText

ParseTitle(rawText) ==
    LET titleMatch == TitleMatch(rawText)
    IN  IF titleMatch.matched THEN Trim(titleMatch.group) ELSE DefaultTitle

ParseContent(rawText) == Trim(RemoveTitleLine(rawText))

-----------------------------------------------------------------------------
(* JavaScript values, as JSON5.parse produces them *)

Undef == [k |-> "undefined", v |-> <<>>]
Null == [k |-> "null", v |-> <<>>]
Str(s) == [k |-> "string", v |-> s]
Arr(xs) == [k |-> "array", v |-> xs]
\* ms: the members in source order, each [key |-> string, val |-> value]
Obj(ms) == [k |-> "object", v |-> ms]
Member(key, val) == [key |-> key, val |-> val]

\* x.key for a parsed JSON value x that is not null: an own member of an
\* object (the last one when the key is repeated), undefined otherwise
Get(x, key) ==
    IF x.k = "object" /\ \E i \in 1..Len(x.v) : x.v[i].key = key
    THEN x.v[CHOOSE i \in 1..Len(x.v) :
                 /\ x.v[i].key = key
                 /\ \A j \in (i + 1)..Len(x.v) : x.v[j].key # key].val
    ELSE Undef

\* ToBoolean
Truthy(x) ==
    CASE x.k \in {"undefined", "null"} -> FALSE
      [] x.k = "string" -> x.v # <<>>
      [] OTHER -> TRUE

-----------------------------------------------------------------------------
(* The text of a model response holding JSON *)

QUOTE == "\""
\* stands for the triple backtick (a string of the module cannot hold one)
TICKS == "'''"
JSONTAG == "json"

\* first position >= i of t that is no white space (Len(t) + 1 when none)
RECURSIVE SkipSpace(_, _)
SkipSpace(t, i) ==
    IF i <= Len(t) /\ IsSpace(t[i]) THEN SkipSpace(t, i + 1) ELSE i

\* position of the quote that closes the string opened before position i
\* (0 when the string is not closed on its line)
RECURSIVE ClosingQuote(_, _)
ClosingQuote(t, i) ==
    IF i > Len(t) \/ t[i] = NL THEN 0
    ELSE IF t[i] = QUOTE THEN i
    ELSE ClosingQuote(t, i + 1)

ParseFail == [ok |-> FALSE, val |-> Undef, pos |-> 0]
ParseOk(val, pos) == [ok |-> TRUE, val |-> val, pos |-> pos]

\* a double-quoted string starting at position i
ParseString(t, i) ==
    LET j == ClosingQuote(t, i + 1)
    IN  IF j = 0 THEN ParseFail ELSE ParseOk(Str(SubSeq(t, i + 1, j - 1)), j + 1)

RECURSIVE ParseValue(_, _)
RECURSIVE ParseElements(_, _, _)
RECURSIVE ParseMembers(_, _, _)

\* JSON5 value at or after position i0
ParseValue(t, i0) ==
    LET i == SkipSpace(t, i0)
    IN  IF i > Len(t) THEN ParseFail
        ELSE CASE t[i] = "null" -> ParseOk(Null, i + 1)
               [] t[i] = QUOTE -> ParseString(t, i)
               [] t[i] = "[" -> ParseElements(t, i + 1, <<>>)
               [] t[i] = "{" -> ParseMembers(t, i + 1, <<>>)
               [] OTHER -> ParseFail

\* the rest of an array after "[" or after a comma (a trailing comma is legal)
ParseElements(t, i0, acc) ==
    LET i == SkipSpace(t, i0)
    IN  IF i > Len(t) THEN ParseFail
        ELSE IF t[i] = "]" THEN ParseOk(Arr(acc), i + 1)
        ELSE LET r == ParseValue(t, i)
                 j == SkipSpace(t, r.pos)
             IN  IF ~r.ok \/ j > Len(t) THEN ParseFail
                 ELSE IF t[j] = "," THEN ParseElements(t, j + 1, Append(acc, r.val))
                 ELSE IF t[j] = "]" THEN ParseOk(Arr(Append(acc, r.val)), j + 1)
                 ELSE ParseFail

\* the rest of an object after "{" or after a comma
ParseMembers(t, i0, acc) ==
    LET i == SkipSpace(t, i0)
    IN  IF i > Len(t) THEN ParseFail
        ELSE IF t[i] = "}" THEN ParseOk(Obj(acc), i + 1)
        ELSE IF t[i] # QUOTE THEN ParseFail
        ELSE LET key == ParseString(t, i)
                 c == SkipSpace(t, key.pos)
             IN  IF ~key.ok \/ c > Len(t) \/ t[c] # ":" THEN ParseFail
                 ELSE LET r == ParseValue(t, c + 1)
                          j == SkipSpace(t, r.pos)
                          m == Member(key.val.v, r.val)
                      IN  IF ~r.ok \/ j > Len(t) THEN ParseFail
                          ELSE IF t[j] = "," THEN ParseMembers(t, j + 1, Append(acc, m))
                          ELSE IF t[j] = "}" THEN ParseOk(Obj(Append(acc, m)), j + 1)
                          ELSE ParseFail

\* JSON5.parse(text): one value, then nothing but white space
JSON5Parse(text) ==
    LET r == ParseValue(text, 1)
    IN  IF r.ok /\ SkipSpace(text, r.pos) > Len(text) THEN r ELSE ParseFail

\* text.replace(/'''json\n?|'''/g, ''): every fence marker of the text goes,
\* wherever it stands
\* A triple backtick always starts a match; the tag after it, and one line
\* break after the tag, belong to the same match.
InFenceMatch(text, i) ==
    \/ text[i] = TICKS
    \/ i > 1 /\ text[i] = JSONTAG /\ text[i - 1] = TICKS
    \/ i > 2 /\ text[i] = NL /\ text[i - 1] = JSONTAG /\ text[i - 2] = TICKS

FenceStrip(text) ==
    LET indexed == [i \in 1..Len(text) |-> <<i, text[i]>>]
        kept == SelectSeq(indexed, LAMBDA p : ~InFenceMatch(text, p[1]))
    IN  [j \in 1..Len(kept) |-> kept[j][2]]

-----------------------------------------------------------------------------
(* regenerateQuiz: from the response to the returned quiz *)

McqKey == <<"mcq_questions">>
EssayKey == <<"essay_questions">>

\* the outcome of a call: a value returned, or an exception raised
Return(value) == [raised |-> FALSE, value |-> value]
Throw == [raised |-> TRUE, value |-> <<>>]

\* a property of an element q taken over by the spread {...q}
Field(q, name) == IF q.k = "object" THEN Get(q, <<name>>) ELSE Undef

\* { ...q, type: 'mcq' }
AsMcq(q) ==
    [type |-> "mcq", question |-> Field(q, "question"),
     options |-> Field(q, "options"), answer |-> Field(q, "answer"),
     explanation |-> Field(q, "explanation")]

\* { ...q, type: 'essay', options: [] }
AsEssay(q) ==
    [type |-> "essay", question |-> Field(q, "question"),
     options |-> Arr(<<>>), answer |-> Field(q, "answer"),
     explanation |-> Field(q, "explanation")]

\* (x || [])
OrEmptyList(x) == IF Truthy(x) THEN x ELSE Arr(<<>>)

\* [...(parsed.mcq_questions || []).map(..), ...(parsed.essay_questions || []).map(..)]
\* reading a property of null, or calling .map on what is no array, raises
BuildQuiz(parsed) ==
    IF parsed.k \in {"null", "undefined"} THEN Throw
    ELSE LET mcq == OrEmptyList(Get(parsed, McqKey))
             essay == OrEmptyList(Get(parsed, EssayKey))
         IN  IF mcq.k # "array" \/ essay.k # "array" THEN Throw
             ELSE Return([i \in 1..Len(mcq.v) |-> AsMcq(mcq.v[i])]
                         \o [i \in 1..Len(essay.v) |-> AsEssay(essay.v[i])])

\* the body of one try block: JSON5.parse, then the mapping
TryParse(text) ==
    LET r == JSON5Parse(text)
    IN  IF r.ok THEN BuildQuiz(r.val) ELSE Throw

\* variant: the second catch is missing, a payload that fails twice raises
ParseQuizPayloadUncaught(text) ==
    LET first == TryParse(text)
        second == TryParse(FenceStrip(text))
    IN  IF ~first.raised
        THEN [raised |-> FALSE, value |-> first.value, attempts |-> <<"raw">>]
        ELSE [raised |-> second.raised, value |-> second.value,
              attempts |-> <<"raw", "stripped">>]

\* variant: the fence is stripped before the first parse
ParseQuizPayloadStripFirst(text) ==
    LET first == TryParse(FenceStrip(text))
    IN  IF ~first.raised
        THEN [raised |-> FALSE, value |-> first.value, attempts |-> <<"stripped">>]
        ELSE [raised |-> FALSE, value |-> <<>>, attempts |-> <<"stripped">>]

\* the nested try/catch around the two parses; attempts records which texts
\* were handed to JSON5.parse
ParseQuizPayload(text) ==
    LET first == TryParse(text)
        second == TryParse(FenceStrip(text))
    IN  IF ~first.raised
        THEN [raised |-> FALSE, value |-> first.value, attempts |-> <<"raw">>]
        ELSE IF ~second.raised
        THEN [raised |-> FALSE, value |-> second.value, attempts |-> <<"raw", "stripped">>]
        ELSE [raised |-> FALSE, value |-> <<>>, attempts |-> <<"raw", "stripped">>]

\* a response of ai.models.generateContent: a rejection, or a text
\* (response.text undefined is the empty text)
ErrorResponse == [kind |-> "error", text |-> <<>>]
TextResponse(t) == [kind |-> "text", text |-> t]

\* regenerateQuiz once the client exists and the call has settled
QuizFromResponse(resp) ==
    IF resp.kind = "error"
    THEN [raised |-> FALSE, value |-> <<>>, attempts |-> <<>>]
    ELSE IF resp.text = <<>>
    THEN [raised |-> FALSE, value |-> <<>>, attempts |-> <<>>]
    ELSE ParseQuizPayload(resp.text)

-----------------------------------------------------------------------------
(* API key resolution *)

\* variant: the build-time value is looked up before the local settings
GetApiKeyEnvFirst ==
    IF Truthy(viteKey) THEN viteKey
    ELSE IF Truthy(localKey) /\ Len(Trim(localKey.v)) > 0 THEN localKey
    ELSE IF Truthy(procKey) /\ procKey # Str(<<"undefined">>) THEN procKey
    ELSE Null

\* getApiKey: local settings, then the Vite environment, then process.env
GetApiKey ==
    IF Truthy(localKey) /\ Len(Trim(localKey.v)) > 0 THEN localKey
    ELSE IF Truthy(viteKey) THEN viteKey
    ELSE IF Truthy(procKey) /\ procKey # Str(<<"undefined">>) THEN procKey
    ELSE Null

\* getAIClient() is not null
HasClient == Truthy(GetApiKey)

-----------------------------------------------------------------------------
(* Inputs: what the hosted model may answer to the quiz request *)

SeqsUpTo(S, n) == UNION {[1..m -> S] : m \in 0..n}

RECURSIVE Stringify(_)
RECURSIVE JoinValues(_)
RECURSIVE JoinMembers(_)

\* JSON.stringify of a value
Stringify(x) ==
    CASE x.k = "string" -> <<QUOTE>> \o x.v \o <<QUOTE>>
      [] x.k = "array" -> <<"[">> \o JoinValues(x.v) \o <<"]">>
      [] x.k = "object" -> <<"{">> \o JoinMembers(x.v) \o <<"}">>
      [] OTHER -> <<"null">>

JoinValues(xs) ==
    IF xs = <<>> THEN <<>>
    ELSE IF Len(xs) = 1 THEN Stringify(xs[1])
    ELSE Stringify(xs[1]) \o <<",">> \o JoinValues(Tail(xs))

JoinMembers(ms) ==
    IF ms = <<>> THEN <<>>
    ELSE LET m == <<QUOTE>> \o ms[1].key \o <<QUOTE, ":">> \o Stringify(ms[1].val)
         IN  IF Len(ms) = 1 THEN m ELSE m \o <<",">> \o JoinMembers(Tail(ms))

McqObject(question, options, answer) ==
    Obj(<<Member(<<"question">>, Str(question)),
          Member(<<"options">>, Arr([i \in 1..Len(options) |-> Str(<<options[i]>>)])),
          Member(<<"answer">>, Str(<<answer>>)),
          Member(<<"explanation">>, Str(<<"e">>))>>)

EssayObject(question, answer) ==
    Obj(<<Member(<<"question">>, Str(question)),
          Member(<<"answer">>, Str(<<answer>>)),
          Member(<<"explanation">>, Str(<<"e">>))>>)

\* multiple-choice entries the model may write: a well-formed one, one whose
\* answer is none of its options, one that quotes a code snippet, one without
\* options
McqPool ==
    { McqObject(<<"q1">>, <<"3", "4">>, "4"),
      McqObject(<<"q2">>, <<"3", "4">>, "5"),
      McqObject(<<"q3", TICKS, "c", TICKS>>, <<"3", "4">>, "3"),
      Obj(<<Member(<<"question">>, Str(<<"q4">>)),
            Member(<<"answer">>, Str(<<"4">>))>>) }

\* essay entries: a theory question and two code-completion questions
EssayPool ==
    { EssayObject(<<"t1">>, "k"),
      EssayObject(<<"t2", TICKS, "c", TICKS>>, "k"),
      EssayObject(<<TICKS, JSONTAG, "x", TICKS>>, "k") }

QuizObject(mcq, essay) ==
    Obj(<<Member(McqKey, Arr(mcq)), Member(EssayKey, Arr(essay))>>)

\* payloads of the requested shape
RegularValues ==
    { QuizObject(m, e) : m \in SeqsUpTo(McqPool, MaxPerKind),
                         e \in SeqsUpTo(EssayPool, MaxPerKind) }

\* valid JSON that is not an object holding two lists
IrregularValues ==
    { Null,
      Arr(<<>>),
      Arr(<<McqObject(<<"q1">>, <<"3", "4">>, "4")>>),
      Str(<<"s">>),
      Obj(<<>>),
      Obj(<<Member(EssayKey, Arr(<<EssayObject(<<"t1">>, "k")>>))>>),
      Obj(<<Member(McqKey, Str(<<"abc">>))>>),
      Obj(<<Member(McqKey, Arr(<<>>)), Member(EssayKey, Obj(<<>>))>>),
      Obj(<<Member(McqKey, Null), Member(EssayKey, Null)>>),
      Obj(<<Member(McqKey, Arr(<<Null, Str(<<"x">>)>>))>>) }

Fenced(text) == <<TICKS, JSONTAG, NL>> \o text \o <<NL, TICKS>>
FencedUntagged(text) == <<TICKS, NL>> \o text \o <<NL, TICKS>>
Truncated(text) == Take(text, Len(text) - 1)

\* one input of the quiz parsing: the response, the JSON value the model
\* meant, and how it wrote it
PayloadInput(resp, value, form) == [resp |-> resp, value |-> value, form |-> form]

PayloadInputs ==
    {PayloadInput(ErrorResponse, Undef, "error"), PayloadInput(TextResponse(<<>>), Undef, "empty")}
    \cup { PayloadInput(TextResponse(Stringify(x)), x, "bare") :
             x \in RegularValues \cup IrregularValues }
    \cup { PayloadInput(TextResponse(Fenced(Stringify(x))), x, "fenced") :
             x \in RegularValues \cup IrregularValues }
    \cup { PayloadInput(TextResponse(FencedUntagged(Stringify(x))), x, "fenced") :
             x \in RegularValues }
    \cup { PayloadInput(TextResponse(Truncated(Stringify(x))), x, "truncated") :
             x \in RegularValues }
    \cup { PayloadInput(TextResponse(Truncated(Fenced(Stringify(x)))), x, "halffenced") :
             x \in RegularValues }

-----------------------------------------------------------------------------
(* Inputs: what the hosted model may answer to the content request *)

RawAlphabet == {MarkerUpper, MarkerLower, SP, NL, "a", "b"}

\* the non-empty raw texts up to MaxRawLen atoms
RawTexts == UNION {[1..n -> RawAlphabet] : n \in 1..MaxRawLen}

-----------------------------------------------------------------------------
(* The state before any note is created *)

NoResponse == [kind |-> "none", text |-> <<>>]
\* regenerateQuiz found no client and made no call
NoClient == [kind |-> "noclient", text |-> <<>>]
NoSummary == [raised |-> FALSE, title |-> <<>>, content |-> <<>>, quiz |-> <<>>]
Dates == {"5/11/2026", "6/11/2026"}

NoteIdle ==
    /\ pc = "idle"
    /\ isCreatingNote = FALSE
    /\ contextText = <<>>
    /\ images = 0
    /\ ai = FALSE
    /\ calls = <<>>
    /\ contentResp = NoResponse
    /\ quizResp = NoResponse
    /\ summary = NoSummary
    /\ notes = <<>>

\* the chat page before anything is typed, chosen or sent
NoJob == [active |-> FALSE, sid |-> 0, sessions |-> <<>>, since |-> 0]
ChatIdle ==
    /\ input = <<>>
    /\ selectedFiles = <<>>
    /\ previewUrls = <<>>
    /\ reading = <<>>
    /\ converting = 0
    /\ isLoading = FALSE
    /\ isRecording = FALSE
    /\ isCreatingQuiz = FALSE
    /\ quizJob = NoJob
    /\ messages = <<>>
    /\ currentSessionId = 0
    /\ sends = <<>>

ChatUnused ==
    /\ ChatIdle
    /\ sessions = <<>>
    /\ db = <<>>
    /\ clock = 0

NoteUnused ==
    /\ localKey = Null /\ viteKey = Null /\ procKey = Null
    /\ today = "5/11/2026"
    /\ NoteIdle

-----------------------------------------------------------------------------
(* Specification of the quiz parsing: regenerateQuiz on every response *)

NoQuizOutcome == [raised |-> FALSE, value |-> <<>>, attempts |-> <<>>]

InitPayload ==
    /\ NoteUnused
    /\ ChatUnused
    /\ hpc = "call"
    /\ hIn \in PayloadInputs
    /\ hOut = NoQuizOutcome

RegenerateQuizReturns ==
    /\ hpc = "call"
    /\ hOut' = QuizFromResponse(hIn.resp)
    /\ hpc' = "done"
    /\ UNCHANGED <<hIn, noteVars, chatVars>>

NextPayload == RegenerateQuizReturns

SpecPayload == InitPayload /\ [][NextPayload]_vars

-----------------------------------------------------------------------------
(* Specification of the content parsing step of generateNoteSummary *)

InitContent ==
    /\ NoteUnused
    /\ ChatUnused
    /\ hpc = "call"
    /\ hIn \in RawTexts
    /\ hOut = [title |-> <<>>, content |-> <<>>]

ParseNoteContent ==
    /\ hpc = "call"
    /\ hOut' = [title |-> ParseTitle(hIn), content |-> ParseContent(hIn)]
    /\ hpc' = "done"
    /\ UNCHANGED <<hIn, noteVars, chatVars>>

NextContent == ParseNoteContent

SpecContent == InitContent /\ [][NextContent]_vars

-----------------------------------------------------------------------------
(* Quiz scoring: NoteDetailPage (note quiz) and QuizView (chat quiz) *)

\* Math.round(num / den) for num >= 0, den > 0
MathRound(num, den) == (2 * num + den) \div (2 * den)

\* a === b for the values a quiz holds: primitives compare by value,
\* arrays and objects never equal another value
StrictEq(a, b) == a = b /\ a.k \in {"string", "undefined", "null"}

\* q.type === 'mcq' || (!q.type && q.options)
IsMcqEntry(q) == q.type = "mcq" \/ (q.type = "" /\ Truthy(q.options))

\* NoteDetailPage.calculateScore
CalculateScore(quiz, quizAnswers) ==
    LET mcq == {i \in 1..Len(quiz) : IsMcqEntry(quiz[i])}
        correct == {i \in mcq : StrictEq(quizAnswers[i], quiz[i].answer)}
    IN  IF Cardinality(mcq) = 0 THEN 0
        ELSE MathRound(100 * Cardinality(correct), Cardinality(mcq))

\* NoteDetailPage.countMCQ
CountMCQ(quiz) == Cardinality({i \in 1..Len(quiz) : IsMcqEntry(quiz[i])})

\* QuizView.score: every entry counts, over quiz.length
QuizViewScore(quiz, answers) ==
    LET correct == {i \in 1..Len(quiz) : StrictEq(answers[i], quiz[i].answer)}
    IN  IF Len(quiz) = 0 THEN "NaN"
        ELSE MathRound(100 * Cardinality(correct), Len(quiz))

\* Object.keys(answers).length
AnsweredCount(answers) == Cardinality({i \in DOMAIN answers : answers[i] # Undef})

\* the note page renders entry q with option buttons: !isEssay && q.options
RenderedAsMcq(q) == q.type # "essay" /\ Truthy(q.options)

\* the option buttons of an entry: q.options.map(...)
OptionsOf(q) == IF q.options.k = "array" THEN {q.options.v[j] : j \in 1..Len(q.options.v)} ELSE {}

\* entries of the quizzes handed to the two views: what regenerateQuiz builds
\* (with options, without options, with an empty list of options), and an
\* entry of an older note, stored without a type
ScorePool ==
    { AsMcq(McqObject(<<"q1">>, <<"3", "4">>, "4")),
      AsMcq(McqObject(<<"q2">>, <<"3", "4">>, "5")),
      AsEssay(EssayObject(<<"t1">>, "k")),
      [AsMcq(McqObject(<<"q5">>, <<"3", "4">>, "3")) EXCEPT !.type = ""],
      AsMcq(Obj(<<Member(<<"question">>, Str(<<"q4">>)),
                  Member(<<"answer">>, Str(<<"4">>))>>)),
      AsMcq(McqObject(<<"q6">>, <<>>, "4")) }

NoAnswers(quiz) == [i \in 1..Len(quiz) |-> Undef]

\* hpc is the view ("note" or "chat"), hIn the quiz shown, hOut the view's state.
\* A chat message carries a quiz only when it is not empty (handleCreateQuiz).
InitScore ==
    /\ NoteUnused
    /\ ChatUnused
    /\ hpc \in {"note", "chat"}
    /\ hIn \in SeqsUpTo(ScorePool, MaxQuiz)
    /\ hpc = "chat" => hIn # <<>>
    /\ hOut = [answers |-> NoAnswers(hIn), showResults |-> FALSE]

\* NoteDetailPage.handleAnswer, from an option button
HandleAnswer(qIndex, option) ==
    /\ hpc = "note"
    /\ RenderedAsMcq(hIn[qIndex])
    /\ option \in OptionsOf(hIn[qIndex])
    /\ ~hOut.showResults
    /\ hOut' = [hOut EXCEPT !.answers[qIndex] = option]
    /\ UNCHANGED <<hpc, hIn, noteVars, chatVars>>

\* NoteDetailPage.handleResetQuestion, offered while an answer is recorded
HandleResetQuestion(index) ==
    /\ hpc = "note"
    /\ RenderedAsMcq(hIn[index])
    /\ hOut.answers[index] # Undef
    /\ ~hOut.showResults
    /\ hOut' = [hOut EXCEPT !.answers[index] = Undef]
    /\ UNCHANGED <<hpc, hIn, noteVars, chatVars>>

\* the "Cek Hasil" button of the note page
NoteCheckResults ==
    /\ hpc = "note"
    /\ hIn # <<>>
    /\ ~hOut.showResults
    /\ AnsweredCount(hOut.answers) >= CountMCQ(hIn)
    /\ hOut' = [hOut EXCEPT !.showResults = TRUE]
    /\ UNCHANGED <<hpc, hIn, noteVars, chatVars>>

\* the "Ulangi Kuis" button of the note page
NoteRetryQuiz ==
    /\ hpc = "note"
    /\ hIn # <<>>
    /\ hOut.showResults
    /\ hOut' = [answers |-> NoAnswers(hIn), showResults |-> FALSE]
    /\ UNCHANGED <<hpc, hIn, noteVars, chatVars>>

\* an option button of QuizView
ChatAnswer(idx, opt) ==
    /\ hpc = "chat"
    /\ opt \in OptionsOf(hIn[idx])
    /\ ~hOut.showResults
    /\ hOut' = [hOut EXCEPT !.answers[idx] = opt]
    /\ UNCHANGED <<hpc, hIn, noteVars, chatVars>>

\* the "Cek Jawaban" / "Tutup Hasil" button of QuizView
ChatToggleResults ==
    /\ hpc = "chat"
    /\ AnsweredCount(hOut.answers) >= Len(hIn)
    /\ hOut' = [hOut EXCEPT !.showResults = ~hOut.showResults]
    /\ UNCHANGED <<hpc, hIn, noteVars, chatVars>>

NextScore ==
    \/ \E i \in 1..Len(hIn) : \E o \in OptionsOf(hIn[i]) : HandleAnswer(i, o)
    \/ \E i \in 1..Len(hIn) : HandleResetQuestion(i)
    \/ NoteCheckResults
    \/ NoteRetryQuiz
    \/ \E i \in 1..Len(hIn) : \E o \in OptionsOf(hIn[i]) : ChatAnswer(i, o)
    \/ ChatToggleResults

SpecScore == InitScore /\ [][NextScore]_vars

-----------------------------------------------------------------------------
(* generateNoteSummary and handleCreateNote *)

\* contextText.slice(0, 3000)
SliceCap == 3000

ConfigTitle == <<"Error Konfigurasi">>
ConfigMessage == <<"API Key belum di-setting. Mohon masukkan API Key di menu Pengaturan.">>
FailureHeader == <<"## Gagal Memproses AI ... Berikut teks yang terbaca:">>
FailureText == <<"Terjadi kesalahan. Coba upload ulang atau gunakan file yang lebih kecil.">>
Ellipsis == "..."
\* `Catatan ${new Date().toLocaleDateString()}`
DatedTitle(date) == <<"Catatan ", date>>

\* s.slice(0, n)
Slice(s, n) == SubSeq(s, 1, IF Len(s) < n THEN Len(s) ELSE n)

\* variant: the configuration result carries no title
ConfigErrorSummaryUntitled ==
    [raised |-> FALSE, title |-> <<>>, content |-> ConfigMessage, quiz |-> <<>>]

\* the result returned when getAIClient() is null
ConfigErrorSummary ==
    [raised |-> FALSE, title |-> ConfigTitle, content |-> ConfigMessage, quiz |-> <<>>]

\* variant: the catch block lets the error through
CatchSummaryRethrows(ctx, date) ==
    [raised |-> TRUE, title |-> <<>>, content |-> <<>>, quiz |-> <<>>]

\* variant: the catch block inlines the whole context text
CatchSummaryUncapped(ctx, date) ==
    [raised |-> FALSE,
     title |-> DatedTitle(date),
     content |-> IF ctx # <<>> THEN FailureHeader \o ctx \o <<Ellipsis>> ELSE FailureText,
     quiz |-> <<>>]

\* the result returned by the catch block
CatchSummary(ctx, date) ==
    [raised |-> FALSE,
     title |-> DatedTitle(date),
     content |-> IF ctx # <<>>
                 THEN FailureHeader \o Slice(ctx, SliceCap) \o <<Ellipsis>>
                 ELSE FailureText,
     quiz |-> <<>>]

\* the try block up to the parsed title and content: a rejected call and an
\* empty text both raise
ContentOutcome(resp) ==
    IF resp.kind # "text" \/ resp.text = <<>> THEN Throw
    ELSE Return([title |-> ParseTitle(resp.text), content |-> ParseContent(resp.text)])

\* the rest of the try block, once regenerateQuiz has settled
FinishSummary(parsed, quizOutcome, ctx, date) ==
    IF quizOutcome.raised THEN CatchSummary(ctx, date)
    ELSE [raised |-> FALSE, title |-> parsed.title, content |-> parsed.content,
          quiz |-> quizOutcome.value]

\* Text files picked for a note: what the extraction of each one gives, or
\* that it raises.  The header written before each document counts as one
\* atom.
Extracted(text) == [ok |-> TRUE, text |-> text]
ExtractionFails == [ok |-> FALSE, text |-> <<>>]
ShortDocument == <<"d", "e">>
TextFileChoices == {<<>>, <<ExtractionFails>>, <<Extracted(ShortDocument)>>}

RECURSIVE ContextFromTextFiles(_)
\* contextFromTextFiles after the extraction loop
ContextFromTextFiles(textFiles) ==
    IF textFiles = <<>> THEN <<>>
    ELSE (IF Head(textFiles).ok THEN <<"Dokumen">> \o Head(textFiles).text ELSE <<>>)
         \o ContextFromTextFiles(Tail(textFiles))

\* what the content call may settle with
NoteContentResponses ==
    { ErrorResponse, TextResponse(<<>>),
      TextResponse(<<MarkerUpper, SP, "a", NL, "b">>),
      TextResponse(<<MarkerLower, NL, "b">>),
      TextResponse(<<"a", NL>>),
      TextResponse(<<SP>>) }

GoodQuizValue == QuizObject(<<McqObject(<<"q1">>, <<"3", "4">>, "4")>>, <<EssayObject(<<"t1">>, "k")>>)

\* what the quiz call may settle with
NoteQuizResponses ==
    { ErrorResponse, TextResponse(<<>>),
      TextResponse(Stringify(GoodQuizValue)),
      TextResponse(Fenced(Stringify(GoodQuizValue))),
      TextResponse(Truncated(Stringify(GoodQuizValue))),
      TextResponse(Stringify(Null)) }

LocalKeys == {Null, Str(<<"k1">>)}

Init ==
    /\ localKey \in LocalKeys
    /\ viteKey \in {Undef, Str(<<"k2">>)}
    /\ procKey = Str(<<>>)
    /\ today \in Dates
    /\ NoteIdle
    /\ hpc = "unused" /\ hIn = <<>> /\ hOut = <<>>
    /\ ChatUnused

\* localStorage 'gemini_api_key' is written or removed (the settings dialog
\* of another tab of the application)
StorageChanged(key) ==
    /\ key # localKey
    /\ localKey' = key
    /\ UNCHANGED <<viteKey, procKey, today, pc, isCreatingNote, contextText, images,
                   ai, calls, contentResp, quizResp, summary, notes, harnessVars, chatVars>>

\* handleCreateNote up to the reading of the visual files
HandleCreateNote(visualFiles, textFiles) ==
    /\ pc = "idle"
    /\ ~isCreatingNote
    /\ Len(notes) < MaxNotes
    /\ visualFiles > 0 \/ textFiles # <<>>
    /\ isCreatingNote' = TRUE
    /\ contextText' = ContextFromTextFiles(textFiles)
    /\ images' = visualFiles
    /\ ai' = FALSE
    /\ calls' = <<>>
    /\ contentResp' = NoResponse
    /\ quizResp' = NoResponse
    /\ summary' = NoSummary
    /\ pc' = "reading"
    /\ UNCHANGED <<localKey, viteKey, procKey, today, notes, harnessVars, chatVars>>

\* the files are read: generateNoteSummary starts, up to its first await
CallGenerateNoteSummary ==
    /\ pc = "reading"
    /\ ai' = HasClient
    /\ IF HasClient
       THEN /\ calls' = <<"content">>
            /\ pc' = "content"
            /\ UNCHANGED summary
       ELSE /\ summary' = ConfigErrorSummary
            /\ pc' = "summarized"
            /\ UNCHANGED calls
    /\ UNCHANGED <<localKey, viteKey, procKey, today, isCreatingNote, contextText,
                   images, contentResp, quizResp, notes, harnessVars, chatVars>>

\* the content call settles; on a text, regenerateQuiz starts, up to its await
ContentResponds(resp) ==
    /\ pc = "content"
    /\ contentResp' = resp
    /\ LET outcome == ContentOutcome(resp)
       IN  IF outcome.raised
           THEN /\ summary' = CatchSummary(contextText, today)
                /\ pc' = "summarized"
                /\ UNCHANGED <<calls, quizResp>>
           ELSE IF HasClient
           THEN /\ calls' = Append(calls, "quiz")
                /\ pc' = "quiz"
                /\ UNCHANGED <<summary, quizResp>>
           ELSE /\ quizResp' = NoClient
                /\ summary' = FinishSummary(outcome.value, Return(<<>>), contextText, today)
                /\ pc' = "summarized"
                /\ UNCHANGED calls
    /\ UNCHANGED <<localKey, viteKey, procKey, today, isCreatingNote, contextText,
                   images, ai, notes, harnessVars, chatVars>>

\* the quiz call settles: regenerateQuiz returns, generateNoteSummary returns
QuizResponds(resp) ==
    /\ pc = "quiz"
    /\ quizResp' = resp
    /\ summary' = FinishSummary(ContentOutcome(contentResp).value,
                                QuizFromResponse(resp), contextText, today)
    /\ pc' = "summarized"
    /\ UNCHANGED <<localKey, viteKey, procKey, today, isCreatingNote, contextText,
                   images, ai, calls, contentResp, notes, harnessVars, chatVars>>

\* the Note that handleCreateNote builds from the summary
NewNote(result, date, files, stamp) ==
    [id |-> stamp,
     title |-> IF result.title # <<>> THEN result.title ELSE DatedTitle(date),
     content |-> result.content,
     quiz |-> result.quiz,
     originalFiles |-> files,
     createdAt |-> stamp]

\* handleCreateNote after generateNoteSummary: the note is stored and shown
SaveNote ==
    /\ pc = "summarized"
    /\ IF summary.raised
       THEN /\ pc' = "failed"
            /\ UNCHANGED <<notes, isCreatingNote>>
       ELSE /\ notes' = <<NewNote(summary, today, images, Len(notes) + 1)>> \o notes
            /\ isCreatingNote' = FALSE
            /\ pc' = "idle"
    /\ UNCHANGED <<localKey, viteKey, procKey, today, contextText, images, ai,
                   calls, contentResp, quizResp, summary, harnessVars, chatVars>>

Next ==
    \/ \E key \in LocalKeys : StorageChanged(key)
    \/ \E v \in {0, 1} : \E t \in TextFileChoices : HandleCreateNote(v, t)
    \/ CallGenerateNoteSummary
    \/ \E resp \in NoteContentResponses : ContentResponds(resp)
    \/ \E resp \in NoteQuizResponses : QuizResponds(resp)
    \/ SaveNote

Spec == Init /\ [][Next]_vars

-----------------------------------------------------------------------------
(* Specification of generateNoteSummary alone, on context texts of every    *)
(* length around the cap of the degraded body                               *)

\* a document of n atoms whose last atom differs from the others
DocumentOfLength(n) == [i \in 1..n |-> IF i < n THEN "x" ELSE "y"]

SummaryContexts ==
    { <<>>,
      <<"Dokumen">> \o ShortDocument,
      <<"Dokumen">> \o DocumentOfLength(SliceCap - 1),
      <<"Dokumen">> \o DocumentOfLength(SliceCap),
      <<"Dokumen">> \o DocumentOfLength(SliceCap + 1) }

\* handleCreateNote has read its files and is about to call generateNoteSummary
InitSummary ==
    /\ localKey \in LocalKeys
    /\ viteKey \in {Undef, Str(<<"k2">>)}
    /\ procKey = Str(<<>>)
    /\ today \in Dates
    /\ pc = "reading"
    /\ isCreatingNote = TRUE
    /\ contextText \in SummaryContexts
    /\ images \in {0, 1}
    /\ ai = FALSE
    /\ calls = <<>>
    /\ contentResp = NoResponse
    /\ quizResp = NoResponse
    /\ summary = NoSummary
    /\ notes = <<>>
    /\ hpc = "unused" /\ hIn = <<>> /\ hOut = <<>>
    /\ ChatUnused

NextSummary ==
    \/ \E key \in LocalKeys : StorageChanged(key)
    \/ CallGenerateNoteSummary
    \/ \E resp \in NoteContentResponses : ContentResponds(resp)
    \/ \E resp \in NoteQuizResponses : QuizResponds(resp)

SpecSummary == InitSummary /\ [][NextSummary]_vars

-----------------------------------------------------------------------------
(* Properties of generateNoteSummary (SpecSummary) *)

\* the content call returned a non-empty text
ContentSucceeded == contentResp.kind = "text" /\ contentResp.text # <<>>

\* the quiz phase failed: no client any more, a rejected call, an empty text,
\* or a text that neither parse accepts
QuizPhaseFailed ==
    \/ quizResp.kind \in {"noclient", "error"}
    \/ /\ quizResp.kind = "text"
       /\ \/ quizResp.text = <<>>
          \/ ~JSON5Parse(quizResp.text).ok /\ ~JSON5Parse(FenceStrip(quizResp.text)).ok

\* C1: once the content call has returned non-empty text, the result carries
\* the title and the content parsed from that text whatever the quiz call
\* does, and a failed quiz phase gives quiz = [] (never the degraded result).
C1_QuizFailureKeepsContent ==
    (pc = "summarized" /\ ContentSucceeded) =>
        /\ ~summary.raised
        /\ summary.title = ParseTitle(contentResp.text)
        /\ summary.content = ParseContent(contentResp.text)
        /\ QuizPhaseFailed => summary.quiz = <<>>

\* C1 witness: a content text with a title line was received, the quiz payload
\* was unparsable, and the result still holds the parsed title and body
C1_Witness ==
    /\ pc = "summarized"
    /\ contentResp = TextResponse(<<MarkerUpper, SP, "a", NL, "b">>)
    /\ quizResp = TextResponse(Truncated(Stringify(GoodQuizValue)))
    /\ summary.title = <<"a">> /\ summary.content = <<"b">> /\ summary.quiz = <<>>

\* C2: generateNoteSummary never raises: whenever it has settled it has
\* returned a result {title, content, quiz}, and until then one of its steps
\* can be taken, for every credential state and every outcome of the two calls.
C2_AlwaysReturnsResult ==
    /\ pc \in {"reading", "content", "quiz", "summarized"}
    /\ pc = "summarized" =>
          /\ ~summary.raised
          /\ DOMAIN summary = {"raised", "title", "content", "quiz"}
          /\ summary.content # <<>> \/ ContentSucceeded
    /\ pc # "summarized" =>
          ENABLED (\/ CallGenerateNoteSummary
                   \/ \E resp \in NoteContentResponses : ContentResponds(resp)
                   \/ \E resp \in NoteQuizResponses : QuizResponds(resp))

\* C2 witness: the content call was rejected and a result was returned
C2_Witness ==
    /\ pc = "summarized" /\ ai
    /\ contentResp = ErrorResponse
    /\ ~summary.raised /\ summary.title = DatedTitle(today)

\* C3: when the content call fails or returns empty text, no quiz call is
\* made and the result is the degraded one: dated title, quiz = [], and a body
\* that inlines the first min(3000, length) characters of the context text
\* (the fixed failure text when there is no context text).
C3_DegradedResult ==
    (pc = "summarized" /\ ai /\ ~ContentSucceeded) =>
        /\ calls = <<"content">>
        /\ quizResp = NoResponse
        /\ summary.title = DatedTitle(today)
        /\ summary.quiz = <<>>
        /\ IF contextText = <<>> THEN summary.content = FailureText
           ELSE LET n == Len(summary.content)
                    inlined == SubSeq(summary.content, Len(FailureHeader) + 1, n - 1)
                IN  /\ SubSeq(summary.content, 1, Len(FailureHeader)) = FailureHeader
                    /\ summary.content[n] = Ellipsis
                    /\ Len(inlined) <= SliceCap
                    /\ Len(inlined) <= Len(contextText)
                    /\ Len(inlined) = SliceCap \/ Len(inlined) = Len(contextText)
                    /\ inlined = SubSeq(contextText, 1, Len(inlined))

\* C3 witness: an empty content text with a context text longer than the cap
C3_Witness ==
    /\ pc = "summarized" /\ ai
    /\ contentResp = TextResponse(<<>>)
    /\ Len(contextText) > SliceCap
    /\ Len(summary.content) = Len(FailureHeader) + SliceCap + 1

-----------------------------------------------------------------------------
(* Properties of note creation (Spec) *)

\* the latest handleCreateNote has stored its note, and its
\* generateNoteSummary found no API key
NoteCreatedWithoutKey == pc = "idle" /\ notes # <<>> /\ ~ai

TitleContains(title, atom) == \E i \in 1..Len(title) : title[i] = atom

\* C4 as stated: with no resolvable API key, note creation makes no model
\* call and stores a Note with quiz = [] and a title containing the date.
C4_NoKeyNoteHasDatedTitle ==
    NoteCreatedWithoutKey =>
        /\ calls = <<>>
        /\ notes[1].quiz = <<>>
        /\ TitleContains(notes[1].title, today)

\* C4 amended: with no resolvable API key, note creation makes no model call
\* and stores a Note with quiz = [], the fixed title "Error Konfigurasi" (no
\* date in it) and the fixed configuration-required message as content.
C4_NoKeyNoteHasConfigTitle ==
    NoteCreatedWithoutKey =>
        /\ calls = <<>>
        /\ contentResp = NoResponse /\ quizResp = NoResponse
        /\ notes[1].quiz = <<>>
        /\ notes[1].title = ConfigTitle
        /\ ~TitleContains(notes[1].title, today)
        /\ notes[1].content = ConfigMessage

\* C4 witness: a note stored by a creation that found no key
C4_Witness ==
    /\ NoteCreatedWithoutKey
    /\ GetApiKey = Null
    /\ notes[1].title = ConfigTitle /\ notes[1].quiz = <<>>

-----------------------------------------------------------------------------
(* Properties of the quiz parsing (SpecPayload) *)

\* regenerateQuiz was handed a non-empty response text
PayloadParsed == hpc = "done" /\ hIn.resp.kind = "text" /\ hIn.resp.text # <<>>

\* C5: the raw text is parsed first, the fence-stripped text only when the
\* first attempt fails, the result is empty when both fail, and no payload
\* makes regenerateQuiz raise (a payload that parses but is no object holding
\* two lists included).
C5_ParseFallbackOrder ==
    /\ hpc = "done" => ~hOut.raised
    /\ PayloadParsed =>
          LET raw == TryParse(hIn.resp.text)
              stripped == TryParse(FenceStrip(hIn.resp.text))
          IN  /\ hOut.attempts \in {<<"raw">>, <<"raw", "stripped">>}
              /\ (hOut.attempts = <<"raw", "stripped">>) <=> raw.raised
              /\ ~raw.raised => hOut.value = raw.value
              /\ (raw.raised /\ ~stripped.raised) => hOut.value = stripped.value
              /\ (raw.raised /\ stripped.raised) => hOut.value = <<>>

\* C5 witness: the payload null parses, is no object, and both attempts fail
C5_Witness ==
    /\ PayloadParsed
    /\ hIn.value = Null /\ hIn.form = "bare"
    /\ JSON5Parse(hIn.resp.text).ok
    /\ hOut.attempts = <<"raw", "stripped">>
    /\ hOut.value = <<>> /\ ~hOut.raised

\* what regenerateQuiz returns for the same payload written bare
BareResult(value) == QuizFromResponse(TextResponse(Stringify(value))).value

\* C6: a valid JSON payload gives the same questions whether it arrives bare
\* or wrapped in a markdown code fence, for all payloads, those whose strings
\* quote code in triple backticks included.
C6_FencedEqualsBare ==
    (hpc = "done" /\ hIn.form = "fenced") => hOut.value = BareResult(hIn.value)

\* C7: every multiple-choice question returned by regenerateQuiz has an
\* answer that equals one of its options exactly.
C7_McqAnswerAmongOptions ==
    hpc = "done" =>
        \A i \in 1..Len(hOut.value) :
            hOut.value[i].type = "mcq" =>
                /\ hOut.value[i].options.k = "array"
                /\ \E j \in 1..Len(hOut.value[i].options.v) :
                      hOut.value[i].options.v[j] = hOut.value[i].answer

-----------------------------------------------------------------------------
(* Properties of the content parsing step (SpecContent) *)

\* the raw text starts with the marker (first line prefixed, any letter case)
StartsWithMarker(rawText) == Len(rawText) > 0 /\ IsMarker(rawText[1])

\* the text after the marker on the marker's line
MarkerLineRest(rawText) == Take(Tail(rawText), LineLen(Tail(rawText)))

\* the lines after the marker's line
AfterMarkerLine(rawText) == Drop(rawText, 2 + LineLen(Tail(rawText)))

\* C8: for a raw text whose first line starts with the marker, the title is
\* the text that follows the marker on that line and the body is the raw text
\* without that line (both without surrounding white space), also when
\* nothing but white space follows the marker on its line.
C8_TitleFromMarkerLine ==
    (hpc = "done" /\ StartsWithMarker(hIn)) =>
        /\ hOut.title = Trim(MarkerLineRest(hIn))
        /\ hOut.content = Trim(AfterMarkerLine(hIn))

\* C9 as stated: a raw text without the marker gives the default title and
\* the whole raw text as body, no character added, removed or trimmed.
C9_BodyIsRawText ==
    (hpc = "done" /\ \A i \in 1..Len(hIn) : ~IsMarker(hIn[i])) =>
        /\ hOut.title = DefaultTitle
        /\ hOut.content = hIn

\* C9 amended: a non-empty raw text that does not start with the marker gives
\* the default title, and the body is the raw text without its leading and
\* trailing white space: a contiguous part of the raw text, with only white
\* space before and after it, that neither starts nor ends with white space.
C9_BodyIsTrimmedRawText ==
    (hpc = "done" /\ ~StartsWithMarker(hIn)) =>
        /\ hOut.title = DefaultTitle
        /\ \E from \in 1..(Len(hIn) + 1) :
              /\ from + Len(hOut.content) - 1 <= Len(hIn)
              /\ hOut.content = SubSeq(hIn, from, from + Len(hOut.content) - 1)
              /\ \A i \in 1..(from - 1) : IsSpace(hIn[i])
              /\ \A i \in (from + Len(hOut.content))..Len(hIn) : IsSpace(hIn[i])
        /\ hOut.content # <<>> =>
              /\ ~IsSpace(hOut.content[1])
              /\ ~IsSpace(hOut.content[Len(hOut.content)])

\* C9 witness: a text without the marker whose surrounding white space is
\* dropped from the body, and that holds the marker further on
C9_Witness ==
    /\ hpc = "done"
    /\ hIn = <<SP, "a", MarkerUpper, NL>>
    /\ hOut.title = DefaultTitle
    /\ hOut.content = <<"a", MarkerUpper>>

-----------------------------------------------------------------------------
(* Properties of the quiz scoring (SpecScore) *)

\* round(100 * correct / multipleChoiceCount) over the multiple-choice
\* entries alone, 0 when there is none
ExpectedScore(quiz, answers) ==
    LET mcq == {i \in 1..Len(quiz) : IsMcqEntry(quiz[i])}
        correct == {i \in mcq : answers[i].k = "string" /\ answers[i] = quiz[i].answer}
    IN  IF mcq = {} THEN 0
        ELSE MathRound(100 * Cardinality(correct), Cardinality(mcq))

\* C10: in the note quiz and in the chat quiz alike, the score is
\* round(100 * correct / multipleChoiceCount): essay entries count neither in
\* the numerator nor in the denominator, and the score is 0 without any
\* multiple-choice entry.
C10_ScoreOverMcqOnly ==
    /\ hpc = "note" => CalculateScore(hIn, hOut.answers) = ExpectedScore(hIn, hOut.answers)
    /\ hpc = "chat" => QuizViewScore(hIn, hOut.answers) = ExpectedScore(hIn, hOut.answers)

-----------------------------------------------------------------------------
(* Specification of the key resolution alone, over the three key sources *)

\* localStorage.getItem('gemini_api_key'): absent, empty, blank, padded, plain
StoredKeys == {Null, Str(<<>>), Str(<<SP>>), Str(<<SP, "k1", SP>>), Str(<<"k1">>)}
\* import.meta.env.VITE_API_KEY
BuildKeys == {Undef, Str(<<>>), Str(<<"k2">>)}
\* process.env.API_KEY, which the build defines as a string
LegacyKeys == {Undef, Str(<<>>), Str(<<"undefined">>), Str(<<"k3">>)}
\* what the settings dialog holds when it is saved
ApiKeyInputs == {<<>>, <<SP>>, <<SP, "k1", SP>>, <<"k4">>}

NoKeyOutcome == [key |-> Null, client |-> FALSE]

InitKey ==
    /\ localKey \in StoredKeys
    /\ viteKey \in BuildKeys
    /\ procKey \in LegacyKeys
    /\ today = "5/11/2026"
    /\ NoteIdle
    /\ ChatUnused
    /\ hpc = "call" /\ hIn = <<>> /\ hOut = NoKeyOutcome

\* getAIClient(): getApiKey, then the client when there is a key
GetAIClient ==
    /\ hpc = "call"
    /\ hOut' = [key |-> GetApiKey, client |-> HasClient]
    /\ hpc' = "done"
    /\ UNCHANGED <<hIn, noteVars, chatVars>>

\* handleSaveApiKey: the trimmed key is stored, or the entry removed, and the
\* page is reloaded
HandleSaveApiKey(apiKeyInput) ==
    /\ hpc = "done"
    /\ localKey' = IF Trim(apiKeyInput) # <<>> THEN Str(Trim(apiKeyInput)) ELSE Null
    /\ hIn' = apiKeyInput
    /\ hOut' = NoKeyOutcome
    /\ hpc' = "call"
    /\ UNCHANGED <<viteKey, procKey, today, pc, isCreatingNote, contextText, images,
                   ai, calls, contentResp, quizResp, summary, notes, chatVars>>

NextKey ==
    \/ GetAIClient
    \/ \E apiKeyInput \in ApiKeyInputs : HandleSaveApiKey(apiKeyInput)

SpecKey == InitKey /\ [][NextKey]_vars

-----------------------------------------------------------------------------
(* Properties of the key resolution (SpecKey) *)

\* the three sources, as the claim words them
LocalResolves == localKey.k = "string" /\ \E i \in 1..Len(localKey.v) : ~IsSpace(localKey.v[i])
BuildResolves == viteKey.k = "string" /\ viteKey.v # <<>>
LegacyResolves == procKey.k = "string" /\ procKey.v # <<>> /\ procKey.v # <<"undefined">>

\* C18: the key is the first that resolves of the local setting (non-empty
\* after trimming), the build-time value and the legacy process value (set
\* and not 'undefined'); there is no key, hence no client, exactly when none
\* of the three resolves.
C18_KeyResolutionOrder ==
    hpc = "done" =>
        /\ hOut.key = IF LocalResolves THEN localKey
                      ELSE IF BuildResolves THEN viteKey
                      ELSE IF LegacyResolves THEN procKey
                      ELSE Null
        /\ hOut.key = Null <=> ~(LocalResolves \/ BuildResolves \/ LegacyResolves)
        /\ hOut.client <=> hOut.key # Null

\* C18 witness: a blank local setting and no build-time value, the legacy
\* value is the key
C18_Witness ==
    /\ hpc = "done"
    /\ localKey = Str(<<SP>>) /\ viteKey = Str(<<>>) /\ procKey = Str(<<"k3">>)
    /\ hOut.key = Str(<<"k3">>) /\ hOut.client

-----------------------------------------------------------------------------
(* Property of the quiz phase of generateNoteSummary (SpecSummary) *)

\* regenerateQuiz has been called by the latest generateNoteSummary
QuizPhaseReached == pc = "quiz" \/ quizResp # NoResponse

\* C19: the quiz phase is reached only if the text left of the content
\* response after removing the title line is not empty.
C19_QuizOnlyOnNonEmptyBody ==
    QuizPhaseReached => ParseContent(contentResp.text) # <<>>

-----------------------------------------------------------------------------
(* Specification of the files of a note: handleCreateNote, then the edit    *)
(* mode of NoteDetailPage.  An entry of originalFiles is the data URL of a  *)
(* file and is written as the name of the file it was read from.            *)

\* files offered to the file dialogs: isVisualFile, isDocxFile, isPptxFile
FilePool ==
    { [name |-> "a.png", type |-> "visual"],
      [name |-> "b.docx", type |-> "docx"],
      [name |-> "c.pptx", type |-> "pptx"] }

IsVisualFile(f) == f.type = "visual"
IsTextFile(f) == f.type \in {"docx", "pptx"}

NamesOf(files) == [i \in 1..Len(files) |-> files[i].name]

\* handleCreateNote: sourceNames takes the names of the text files in the
\* extraction loop, then those of the visual files while they are read
CreatedSourceNames(rawFiles) ==
    NamesOf(SelectSeq(rawFiles, IsTextFile)) \o NamesOf(SelectSeq(rawFiles, IsVisualFile))

\* handleCreateNote: originalFiles holds the data URLs of the visual files
CreatedOriginalFiles(rawFiles) == NamesOf(SelectSeq(rawFiles, IsVisualFile))

\* prev.filter((_, i) => i !== index), index counted from 0
RemoveAt(xs, index) ==
    [j \in 1..(Len(xs) - (IF index < Len(xs) THEN 1 ELSE 0)) |->
        IF j <= index THEN xs[j] ELSE xs[j + 1]]

\* the files of rawFiles whose FileReader load succeeded
Loaded(rawFiles, ok) ==
    LET indexed == [i \in 1..Len(rawFiles) |-> <<i, rawFiles[i]>>]
        kept == SelectSeq(indexed, LAMBDA q : ok[q[1]])
    IN  [j \in 1..Len(kept) |-> kept[j][2]]

NoFilesState ==
    [originalFiles |-> <<>>, sourceFileNames |-> <<>>,
     editedFiles |-> <<>>, editedSourceNames |-> <<>>]

\* hpc is the page ("pick", "view", "edit"), hIn the files picked for the
\* new note, hOut the note's two lists and the edit state's two lists
InitFiles ==
    /\ NoteUnused
    /\ ChatUnused
    /\ hpc = "pick"
    /\ hIn \in SeqsUpTo(FilePool, MaxPicked)
    /\ hOut = NoFilesState

\* handleCreateNote on the picked files; NoteDetailPage opens on the note
CreateNoteFromFiles ==
    /\ hpc = "pick"
    /\ SelectSeq(hIn, IsVisualFile) # <<>> \/ SelectSeq(hIn, IsTextFile) # <<>>
    /\ hOut' = [originalFiles |-> CreatedOriginalFiles(hIn),
                sourceFileNames |-> CreatedSourceNames(hIn),
                editedFiles |-> CreatedOriginalFiles(hIn),
                editedSourceNames |-> CreatedSourceNames(hIn)]
    /\ hpc' = "view"
    /\ UNCHANGED <<hIn, noteVars, chatVars>>

\* setIsEditing(true) or the Batal button: the effect resets the edit state
ToggleEditing ==
    /\ hpc \in {"view", "edit"}
    /\ hpc' = IF hpc = "view" THEN "edit" ELSE "view"
    /\ hOut' = [hOut EXCEPT !.editedFiles = hOut.originalFiles,
                            !.editedSourceNames = hOut.sourceFileNames]
    /\ UNCHANGED <<hIn, noteVars, chatVars>>

\* handleAddFile: each file whose load succeeds adds its data and its name
HandleAddFile(files, ok) ==
    /\ hpc = "edit"
    /\ files # <<>>
    /\ Len(hOut.editedSourceNames) + Len(files) <= MaxPicked
    /\ hOut' = [hOut EXCEPT !.editedFiles = @ \o NamesOf(Loaded(files, ok)),
                            !.editedSourceNames = @ \o NamesOf(Loaded(files, ok))]
    /\ UNCHANGED <<hpc, hIn, noteVars, chatVars>>

\* handleRemoveFile(index), from the button of a listed file
HandleRemoveFile(index) ==
    /\ hpc = "edit"
    /\ index \in 0..(Len(hOut.editedFiles) - 1)
    /\ hOut' = [hOut EXCEPT !.editedFiles = RemoveAt(@, index),
                            !.editedSourceNames = RemoveAt(@, index)]
    /\ UNCHANGED <<hpc, hIn, noteVars, chatVars>>

\* handleSave: the note takes the edit state's lists, edit mode ends
HandleSave ==
    /\ hpc = "edit"
    /\ hOut' = [hOut EXCEPT !.originalFiles = hOut.editedFiles,
                            !.sourceFileNames = hOut.editedSourceNames]
    /\ hpc' = "view"
    /\ UNCHANGED <<hIn, noteVars, chatVars>>

NextFiles ==
    \/ CreateNoteFromFiles
    \/ ToggleEditing
    \/ \E files \in SeqsUpTo(FilePool, MaxPicked) :
          \E ok \in [1..Len(files) -> BOOLEAN] : HandleAddFile(files, ok)
    \/ \E index \in 0..MaxPicked : HandleRemoveFile(index)
    \/ HandleSave

SpecFiles == InitFiles /\ [][NextFiles]_vars

-----------------------------------------------------------------------------
(* Property of the files of a note (SpecFiles) *)

\* C17: after creation and after any sequence of add-file, remove-file and
\* save edits, sourceFileNames is parallel to originalFiles: same length, and
\* position i of each refers to the same source file.
C17_NamesParallelToFiles ==
    hpc \in {"view", "edit"} =>
        /\ Len(hOut.sourceFileNames) = Len(hOut.originalFiles)
        /\ \A i \in 1..Len(hOut.originalFiles) :
              hOut.sourceFileNames[i] = hOut.originalFiles[i]

-----------------------------------------------------------------------------
(* The chat page: handleSend, streamGeminiResponse and the handlers that    *)
(* run beside them                                                          *)

\* (userText.slice(0, 30) || fileLabel)
TitleCap == 30
\* the quiz button of a message: message.text.length > 100
QuizMinLength == 100

\* a piece of model text longer than QuizMinLength, written as one atom
PARAGRAPH == "P"
\* text.length
TextLength(text) == Len(text) + QuizMinLength * Cardinality({i \in 1..Len(text) : text[i] = PARAGRAPH})

\* the texts streamGeminiResponse hands to onChunk by itself
ConfigChatMessage == <<"Konfigurasi Diperlukan">>
ServerErrorMessage == <<"Maaf, terjadi kesalahan">>
InvalidKeyMessage == <<"API Key Tidak Valid">>
QuizIntroText == <<"Berikut adalah kuis singkat">>

ImageType == "image/png"
PdfType == "application/pdf"
AudioType == "audio/webm"
VideoType == "video/mp4"

\* the Message objects handleSend and handleCreateQuiz build
UserMessage(id, text, previews) ==
    [id |-> id, role |-> "user", text |-> text, images |-> previews,
     timestamp |-> id, usage |-> 0, quiz |-> <<>>]
ModelMessage(id, text) ==
    [id |-> id, role |-> "model", text |-> text, images |-> <<>>,
     timestamp |-> id - 1, usage |-> 0, quiz |-> <<>>]
QuizMessage(id, quiz) ==
    [id |-> id, role |-> "model", text |-> QuizIntroText, images |-> <<>>,
     timestamp |-> id, usage |-> 0, quiz |-> quiz]

\* fileLabel, from the type of the first attachment
FileLabel(visionFiles) ==
    IF visionFiles = <<>> THEN "Lampiran"
    ELSE IF visionFiles[1] = PdfType THEN "Dokumen PDF"
    ELSE IF visionFiles[1] = AudioType THEN "Rekaman Audio"
    ELSE IF visionFiles[1] = VideoType THEN "Video"
    ELSE "Gambar"

\* sessions.find(s => s.id === id)
HasSession(list, id) == \E k \in 1..Len(list) : list[k].id = id
FindSession(list, id) == list[CHOOSE k \in 1..Len(list) : list[k].id = id /\ \A j \in 1..(k - 1) : list[j].id # id]

\* title of the session handleSend writes, from the state its closure holds
SessionTitle(sid, closureSessions, userText, visionFiles) ==
    IF sid # 0
    THEN IF HasSession(closureSessions, sid) /\ FindSession(closureSessions, sid).title # <<>>
         THEN FindSession(closureSessions, sid).title
         ELSE <<"Percakapan Baru">>
    ELSE (IF Slice(userText, TitleCap) # <<>> THEN Slice(userText, TitleCap)
          ELSE <<FileLabel(visionFiles)>>) \o <<Ellipsis>>

\* the session list with session put at the place of its id, or at the end
PutSession(list, session) ==
    IF HasSession(list, session.id)
    THEN [k \in 1..Len(list) |-> IF list[k].id = session.id THEN session ELSE list[k]]
    ELSE Append(list, session)

\* one handleSend call: what its closure holds, what streamGeminiResponse
\* was given and did
NewSend(userText, visionFiles, userId, aiId, sid, title) ==
    [userText |-> userText, visionFiles |-> visionFiles,
     userId |-> userId, aiId |-> aiId, sid |-> sid, title |-> title,
     accumulatedText |-> <<>>, usageData |-> 0,
     requested |-> FALSE,    \* generateContentStream was called
     contents |-> <<>>,      \* the contents of the request
     arrived |-> <<>>,       \* the chunks the stream delivered
     chunks |-> <<>>,        \* the arguments of the onChunk calls
     finishes |-> 0,         \* the number of onFinish calls
     failed |-> FALSE,       \* the stream raised
     raised |-> FALSE,       \* streamGeminiResponse raised to handleSend
     pc |-> "start"]

\* variants of the callbacks and of the replies below
AccumulateInFront(send, chunk) ==
    [send EXCEPT !.accumulatedText = chunk \o @, !.chunks = Append(@, chunk)]
CatchStreamSilent(send, invalidKey) == [send EXCEPT !.failed = TRUE]
NoClientSilent(send) == send

\* the parts of a turn: one inlineData part for each image, then the text
\* when there is one
PartsOf(imgs, text) ==
    [k \in 1..Len(imgs) |-> [inlineData |-> <<imgs[k]>>, text |-> <<>>]]
    \o (IF text # <<>> THEN <<[inlineData |-> <<>>, text |-> text]>> ELSE <<>>)

\* pastContents of streamGeminiResponse
PastContents(history) ==
    [k \in 1..Len(history) |->
        [role |-> history[k].role, parts |-> PartsOf(history[k].images, history[k].text)]]

\* contents of streamGeminiResponse
RequestContents(history, currentText, currentImages) ==
    Append(PastContents(history),
           [role |-> "user", parts |-> PartsOf(currentImages, currentText)])

\* the onChunk callback of handleSend, on the closure
Accumulate(send, chunk) ==
    [send EXCEPT !.accumulatedText = @ \o chunk, !.chunks = Append(@, chunk)]

\* the onChunk callback of handleSend, on the messages shown
ShowAccumulated(msgs, send) ==
    [k \in 1..Len(msgs) |->
        IF msgs[k].id = send.aiId THEN [msgs[k] EXCEPT !.text = send.accumulatedText]
        ELSE msgs[k]]

\* the onFinish callback of handleSend
OnFinish(send, usage) == [send EXCEPT !.usageData = usage, !.finishes = @ + 1]

\* streamGeminiResponse without a client
NoClientReply(send) == Accumulate(send, ConfigChatMessage)

\* the catch block of streamGeminiResponse
CatchStream(send, invalidKey) ==
    Accumulate([send EXCEPT !.failed = TRUE],
               IF invalidKey THEN InvalidKeyMessage ELSE ServerErrorMessage)

\* one chunk of the stream: onChunk on a text, onFinish on usage metadata
TakeChunk(send, text, usage) ==
    LET got == [send EXCEPT !.arrived = Append(@, [text |-> text, usage |-> usage])]
        told == IF text # <<>> THEN Accumulate(got, text) ELSE got
    IN  IF usage # 0 THEN OnFinish(told, usage) ELSE told

\* currentParts.length === 0
NoCurrentParts(send) == send.userText = <<>> /\ send.visionFiles = <<>>

\* updatedMessages of the last setMessages of handleSend
FinalMessages(msgs, send) ==
    [k \in 1..Len(msgs) |->
        IF msgs[k].id = send.aiId
        THEN [msgs[k] EXCEPT !.text = send.accumulatedText, !.usage = send.usageData]
        ELSE msgs[k]]

\* handleSend after streamGeminiResponse: the last setMessages with the
\* session it writes, then setIsLoading(false)
FinishSend(send, msgs, newSends, ticks) ==
    LET updatedMessages == FinalMessages(msgs, send)
        currentId == IF send.sid # 0 THEN send.sid ELSE clock
        updatedSession == [id |-> currentId, title |-> send.title,
                           messages |-> updatedMessages]
    IN  /\ messages' = updatedMessages
        /\ currentSessionId' = IF send.sid = 0 THEN currentId ELSE currentSessionId
        /\ sessions' = PutSession(sessions, updatedSession)
        /\ db' = PutSession(db, updatedSession)
        /\ isLoading' = FALSE
        /\ sends' = newSends
        /\ clock' = clock + ticks

\* handleSend up to the first await that leaves the event: the whole call
\* when streamGeminiResponse returns without a request
HandleSend ==
    /\ ~((Trim(input) = <<>> /\ selectedFiles = <<>>) \/ isLoading)
    /\ LET userText == Trim(input)
           visionFiles == previewUrls
           send == NewSend(userText, visionFiles, clock, clock + 1, currentSessionId,
                           SessionTitle(currentSessionId, sessions, userText, visionFiles))
           shown == messages \o <<UserMessage(clock, userText, visionFiles),
                                  ModelMessage(clock + 1, <<>>)>>
       IN  /\ input' = <<>>
           /\ selectedFiles' = <<>>
           /\ previewUrls' = <<>>
           /\ IF ~HasClient
              THEN LET told == [NoClientReply(send) EXCEPT !.pc = "done"]
                   IN  FinishSend(told, ShowAccumulated(shown, told), Append(sends, told), 2)
              ELSE IF NoCurrentParts(send)
              THEN FinishSend([send EXCEPT !.pc = "done"], shown,
                              Append(sends, [send EXCEPT !.pc = "done"]), 2)
              ELSE /\ messages' = shown
                   /\ isLoading' = TRUE
                   /\ sends' = Append(sends, [send EXCEPT
                                   !.requested = TRUE,
                                   !.contents = RequestContents(messages, userText, visionFiles),
                                   !.pc = "streaming"])
                   /\ clock' = clock + 2
                   /\ UNCHANGED <<currentSessionId, sessions, db>>
    /\ UNCHANGED <<reading, converting, isRecording, isCreatingQuiz, quizJob,
                   noteVars, harnessVars>>

\* the response stream of send i delivers a chunk
StreamChunk(i, text, usage) ==
    /\ i \in 1..Len(sends)
    /\ sends[i].pc = "streaming"
    /\ Len(sends[i].arrived) < MaxChunks
    /\ LET told == TakeChunk(sends[i], text, usage)
       IN  /\ sends' = [sends EXCEPT ![i] = told]
           /\ messages' = IF text # <<>> THEN ShowAccumulated(messages, told) ELSE messages
    /\ UNCHANGED <<input, selectedFiles, previewUrls, reading, converting, isLoading,
                   isRecording, isCreatingQuiz, quizJob, currentSessionId, sessions,
                   db, clock, noteVars, harnessVars>>

\* the response stream of send i ends: streamGeminiResponse returns
StreamEnds(i) ==
    /\ i \in 1..Len(sends)
    /\ sends[i].pc = "streaming"
    /\ LET done == [sends[i] EXCEPT !.pc = "done"]
       IN  FinishSend(done, messages, [sends EXCEPT ![i] = done], 1)
    /\ UNCHANGED <<input, selectedFiles, previewUrls, reading, converting,
                   isRecording, isCreatingQuiz, quizJob, noteVars, harnessVars>>

\* the request or the stream of send i raises: the catch block runs
StreamFails(i, invalidKey) ==
    /\ i \in 1..Len(sends)
    /\ sends[i].pc = "streaming"
    /\ LET told == [CatchStream(sends[i], invalidKey) EXCEPT !.pc = "done"]
       IN  FinishSend(told, ShowAccumulated(messages, told), [sends EXCEPT ![i] = told], 1)
    /\ UNCHANGED <<input, selectedFiles, previewUrls, reading, converting,
                   isRecording, isCreatingQuiz, quizJob, noteVars, harnessVars>>

\* the text area's onChange
InputTexts == {<<>>, <<SP>>, <<"t">>, DocumentOfLength(TitleCap + 1)}
SetInput(text) ==
    /\ text # input
    /\ input' = text
    /\ UNCHANGED <<selectedFiles, previewUrls, reading, converting, isLoading,
                   isRecording, isCreatingQuiz, quizJob, messages, currentSessionId,
                   sessions, db, clock, sends, noteVars, harnessVars>>

\* room for one more attachment in the input area
RoomToAttach ==
    /\ Len(selectedFiles) < MaxAttach
    /\ Len(reading) < MaxAttach
    /\ Len(previewUrls) < MaxAttach

\* processFileSelection on one visual file: the file is selected and read
SelectVisualFile(type) ==
    /\ RoomToAttach
    /\ selectedFiles' = Append(selectedFiles, type)
    /\ reading' = Append(reading, type)
    /\ UNCHANGED <<input, previewUrls, converting, isLoading, isRecording,
                   isCreatingQuiz, quizJob, messages, currentSessionId, sessions,
                   db, clock, sends, noteVars, harnessVars>>

\* reader.onload of a file being read
PreviewLoaded(k) ==
    /\ k \in 1..Len(reading)
    /\ previewUrls' = Append(previewUrls, reading[k])
    /\ reading' = RemoveAt(reading, k - 1)
    /\ UNCHANGED <<input, selectedFiles, converting, isLoading, isRecording,
                   isCreatingQuiz, quizJob, messages, currentSessionId, sessions,
                   db, clock, sends, noteVars, harnessVars>>

\* the text a converted document adds to the input
DocumentText == "Isi Dokumen"

\* processFileSelection on one docx or pptx file, up to the extraction
SelectTextFile ==
    /\ converting < MaxAttach
    /\ Cardinality({k \in 1..Len(input) : input[k] = DocumentText}) < MaxAttach
    /\ isLoading' = TRUE
    /\ converting' = converting + 1
    /\ UNCHANGED <<input, selectedFiles, previewUrls, reading, isRecording,
                   isCreatingQuiz, quizJob, messages, currentSessionId, sessions,
                   db, clock, sends, noteVars, harnessVars>>

\* processFileSelection after the extraction: the text is added to the input
\* unless the extraction raised, then setIsLoading(false)
ConversionDone(ok) ==
    /\ converting > 0
    /\ input' = IF ok THEN Append(input, DocumentText) ELSE input
    /\ isLoading' = FALSE
    /\ converting' = converting - 1
    /\ UNCHANGED <<selectedFiles, previewUrls, reading, isRecording, isCreatingQuiz,
                   quizJob, messages, currentSessionId, sessions, db, clock, sends,
                   noteVars, harnessVars>>

StartRecording ==
    /\ ~isRecording
    /\ RoomToAttach
    /\ isRecording' = TRUE
    /\ UNCHANGED <<input, selectedFiles, previewUrls, reading, converting, isLoading,
                   isCreatingQuiz, quizJob, messages, currentSessionId, sessions,
                   db, clock, sends, noteVars, harnessVars>>

\* stopRecording, then mediaRecorder.onstop: the recording is a selected file
StopRecording ==
    /\ isRecording
    /\ RoomToAttach
    /\ isRecording' = FALSE
    /\ selectedFiles' = Append(selectedFiles, AudioType)
    /\ reading' = Append(reading, AudioType)
    /\ UNCHANGED <<input, previewUrls, converting, isLoading, isCreatingQuiz,
                   quizJob, messages, currentSessionId, sessions, db, clock, sends,
                   noteVars, harnessVars>>

\* the quiz button is shown on message m
QuizButtonShown(m) == m.role = "model" /\ m.quiz = <<>> /\ TextLength(m.text) > QuizMinLength

QuizCount(msgs) == Cardinality({k \in 1..Len(msgs) : msgs[k].quiz # <<>>})

\* handleCreateQuiz up to the await of regenerateQuiz
HandleCreateQuiz(k) ==
    /\ k \in 1..Len(messages)
    /\ QuizButtonShown(messages[k])
    /\ ~isCreatingQuiz
    /\ QuizCount(messages) < MaxAttach
    /\ isCreatingQuiz' = TRUE
    /\ quizJob' = [active |-> TRUE, sid |-> currentSessionId, sessions |-> sessions,
                    since |-> clock]
    /\ UNCHANGED <<input, selectedFiles, previewUrls, reading, converting, isLoading,
                   isRecording, messages, currentSessionId, sessions, db, clock,
                   sends, noteVars, harnessVars>>

\* the session list handleCreateQuiz sets: its closure's list with the quiz
\* message added to the closure's current session
QuizSessions(job, quizMessage) ==
    [k \in 1..Len(job.sessions) |->
        IF job.sessions[k].id = job.sid
        THEN [job.sessions[k] EXCEPT !.messages = Append(@, quizMessage)]
        ELSE job.sessions[k]]

ChatQuizResponses == {ErrorResponse, TextResponse(Stringify(GoodQuizValue))}

\* the values Date.now() may have when regenerateQuiz returns: a
\* millisecond of its own, or the millisecond after a handleSend that was
\* made while the request was in flight
QuizTimes ==
    {clock} \cup {now \in {clock - 1} :
                     /\ quizJob.since < now
                     /\ \E i \in 1..Len(sends) : sends[i].aiId = now}

\* handleCreateQuiz after regenerateQuiz returned, at the time now
QuizCreated(resp, now) ==
    /\ quizJob.active
    /\ now \in QuizTimes
    /\ LET quiz == IF HasClient THEN QuizFromResponse(resp).value ELSE <<>>
           quizMessage == QuizMessage(now, quiz)
       IN  IF quiz # <<>>
           THEN /\ messages' = Append(messages, quizMessage)
                /\ clock' = IF now = clock THEN clock + 1 ELSE clock
                /\ IF quizJob.sid # 0
                   THEN /\ sessions' = QuizSessions(quizJob, quizMessage)
                        /\ db' = IF HasSession(quizJob.sessions, quizJob.sid)
                                 THEN PutSession(db, FindSession(QuizSessions(quizJob, quizMessage), quizJob.sid))
                                 ELSE db
                   ELSE UNCHANGED <<sessions, db>>
           ELSE /\ now = clock
                /\ UNCHANGED <<messages, clock, sessions, db>>
    /\ isCreatingQuiz' = FALSE
    /\ quizJob' = NoJob
    /\ UNCHANGED <<input, selectedFiles, previewUrls, reading, converting, isLoading,
                   isRecording, currentSessionId, sends, noteVars, harnessVars>>

\* loadSession, from the session list of the sidebar
LoadSession(k) ==
    /\ k \in 1..Len(sessions)
    /\ currentSessionId # sessions[k].id \/ messages # sessions[k].messages
    /\ currentSessionId' = sessions[k].id
    /\ messages' = sessions[k].messages
    /\ UNCHANGED <<input, selectedFiles, previewUrls, reading, converting, isLoading,
                   isRecording, isCreatingQuiz, quizJob, sessions, db, clock, sends,
                   noteVars, harnessVars>>

\* the list without the sessions of this id
WithoutSession(list, id) == SelectSeq(list, LAMBDA session : session.id # id)

\* confirmDelete on session k of the sidebar
ConfirmDelete(k) ==
    /\ k \in 1..Len(sessions)
    /\ LET itemId == sessions[k].id
       IN  /\ db' = WithoutSession(db, itemId)
           /\ sessions' = WithoutSession(sessions, itemId)
           /\ IF currentSessionId = itemId
              THEN messages' = <<>> /\ currentSessionId' = 0
              ELSE UNCHANGED <<messages, currentSessionId>>
    /\ UNCHANGED <<input, selectedFiles, previewUrls, reading, converting, isLoading,
                   isRecording, isCreatingQuiz, quizJob, clock, sends, noteVars,
                   harnessVars>>

\* clearChat, confirmed
ClearChat ==
    /\ Len(messages) > 0
    /\ messages' = <<>>
    /\ currentSessionId' = 0
    /\ selectedFiles' = <<>>
    /\ previewUrls' = <<>>
    /\ UNCHANGED <<input, reading, converting, isLoading, isRecording, isCreatingQuiz,
                   quizJob, sessions, db, clock, sends, noteVars, harnessVars>>

\* a conversation stored by an earlier visit
OldSession ==
    [id |-> 3, title |-> <<"o", Ellipsis>>,
     messages |-> <<UserMessage(1, <<"o">>, <<>>), ModelMessage(2, <<"r">>)>>]

\* the chunks a response stream may deliver: a text or none, usage or none
ChunkTexts == {<<>>, <<"a">>, <<"b">>}
ChunkUsages == {0, 7}

\* what the input area may hold when the user sends: no attachment, a file
\* selected whose preview is not loaded yet, a file with its preview
NoAttachment == [selectedFiles |-> <<>>, reading |-> <<>>, previewUrls |-> <<>>]
Attaching(type) == [selectedFiles |-> <<type>>, reading |-> <<type>>, previewUrls |-> <<>>]
Attached(type) == [selectedFiles |-> <<type>>, reading |-> <<>>, previewUrls |-> <<type>>]
InputAreas ==
    {NoAttachment} \cup {Attaching(ImageType)}
    \cup {Attached(type) : type \in {ImageType, PdfType, AudioType, VideoType}}

\* One turn of a conversation, from the send to the end of its stream
InitTurn ==
    /\ localKey \in LocalKeys
    /\ viteKey = Undef
    /\ procKey = Str(<<>>)
    /\ today = "5/11/2026"
    /\ NoteIdle
    /\ hpc = "unused" /\ hIn = <<>> /\ hOut = <<>>
    /\ input \in InputTexts
    /\ \E area \in InputAreas :
          /\ selectedFiles = area.selectedFiles
          /\ reading = area.reading
          /\ previewUrls = area.previewUrls
    /\ converting = 0
    /\ isLoading = FALSE
    /\ isRecording = FALSE
    /\ isCreatingQuiz = FALSE
    /\ quizJob = NoJob
    /\ sends = <<>>
    /\ \E session \in {<<>>, <<OldSession>>} :
          /\ sessions = session
          /\ db = session
          /\ \/ messages = <<>> /\ currentSessionId = 0
             \/ /\ session # <<>>
                /\ messages = session[1].messages
                /\ currentSessionId = session[1].id
    /\ clock = 10

NextTurn ==
    \/ sends = <<>> /\ HandleSend
    \/ \E text \in ChunkTexts : \E usage \in ChunkUsages : StreamChunk(1, text, usage)
    \/ StreamEnds(1)
    \/ \E invalidKey \in BOOLEAN : StreamFails(1, invalidKey)

SpecTurn == InitTurn /\ [][NextTurn]_vars

(***************************************************************************)
(* Claims about one turn                                                    *)
(***************************************************************************)

RECURSIVE JoinTexts(_)
\* the concatenation of a list of texts, in order
JoinTexts(texts) == IF texts = <<>> THEN <<>> ELSE Head(texts) \o JoinTexts(Tail(texts))

\* the texts of the chunks that carry one, in arrival order
IsTextChunk(chunk) == chunk.text # <<>>
Deltas(arrived) ==
    LET told == SelectSeq(arrived, IsTextChunk)
    IN  [k \in 1..Len(told) |-> told[k].text]

\* the chunks that carry usage metadata
UsageCount(arrived) == Cardinality({k \in 1..Len(arrived) : arrived[k].usage # 0})

\* the message list shows a message id with this text
Shows(msgs, id, text) == \E k \in 1..Len(msgs) : msgs[k].id = id /\ msgs[k].text = text
HasMessage(msgs, id) == \E k \in 1..Len(msgs) : msgs[k].id = id

\* C11: while a stream runs, onChunk has been called once for each chunk
\* with a non-empty text, in arrival order and with the text of that chunk
\* alone, and the model message that handleSend shows holds the
\* concatenation of these texts in arrival order.
C11_ChunksInArrivalOrder ==
    sends # <<>> /\ sends[1].requested =>
        LET send == sends[1]
            deltas == Deltas(send.arrived)
        IN  /\ Len(send.chunks) >= Len(deltas)
            /\ SubSeq(send.chunks, 1, Len(deltas)) = deltas
            /\ ~send.failed => send.chunks = deltas
            /\ send.accumulatedText = JoinTexts(send.chunks)
            /\ Shows(messages, send.aiId, send.accumulatedText)

\* two chunks with a text have arrived, "a" before "b", and the message
\* shows "ab"
C11_Witness ==
    /\ sends # <<>>
    /\ sends[1].pc = "streaming"
    /\ sends[1].chunks = << <<"a">>, <<"b">> >>
    /\ Shows(messages, sends[1].aiId, <<"a", "b">>)

\* C12: when the request or the stream raises, before or after any number
\* of chunks, streamGeminiResponse does not raise, calls onChunk exactly once
\* more, with an error message for the user, and calls nothing after it; the
\* model message of the turn is not blank.
C12_FailureGivesErrorMessage ==
    sends # <<>> /\ sends[1].failed =>
        LET send == sends[1]
            deltas == Deltas(send.arrived)
        IN  /\ ~send.raised
            /\ send.pc = "done"
            /\ Len(send.chunks) = Len(deltas) + 1
            /\ send.chunks[Len(send.chunks)] \in {ServerErrorMessage, InvalidKeyMessage}
            /\ send.finishes = UsageCount(send.arrived)
            /\ \E k \in 1..Len(messages) :
                  /\ messages[k].id = send.aiId
                  /\ messages[k].text # <<>>
                  /\ messages[k].text = JoinTexts(deltas) \o send.chunks[Len(send.chunks)]

\* the stream raised after a chunk "a": the message shows "a" and the error
C12_Witness ==
    /\ sends # <<>>
    /\ sends[1].failed
    /\ Deltas(sends[1].arrived) = << <<"a">> >>
    /\ Shows(messages, sends[1].aiId, <<"a">> \o ServerErrorMessage)

\* C13: without a key that resolves, a send makes no request to the model:
\* onChunk is called exactly once, with the message asking for the
\* configuration, onFinish is not called, nothing is raised, the model
\* message holds that text and isLoading is false again.
C13_NoKeyGivesConfigMessage ==
    sends # <<>> /\ ~HasClient =>
        LET send == sends[1]
        IN  /\ ~send.requested
            /\ send.chunks = <<ConfigChatMessage>>
            /\ send.finishes = 0
            /\ ~send.raised
            /\ send.pc = "done"
            /\ Shows(messages, send.aiId, ConfigChatMessage)
            /\ ~isLoading

\* a text was sent without a key
C13_Witness ==
    /\ sends # <<>>
    /\ ~HasClient
    /\ sends[1].userText = <<"t">>
    /\ Shows(messages, sends[1].aiId, ConfigChatMessage)

\* C14: a turn whose text and whose attachments are both empty does
\* nothing: no request to the model, no onChunk and no onFinish, no message
\* added to the conversation and no session stored for it.
C14_EmptyTurnIsNoOp ==
    sends # <<>> /\ NoCurrentParts(sends[1]) =>
        LET send == sends[1]
        IN  /\ ~send.requested
            /\ send.chunks = <<>>
            /\ send.finishes = 0
            /\ ~HasMessage(messages, send.userId)
            /\ ~HasMessage(messages, send.aiId)
            /\ \A k \in 1..Len(db) : ~HasMessage(db[k].messages, send.userId)

\* The chat page with a key stored and one conversation in the store
InitChat ==
    /\ localKey = Str(<<"k1">>)
    /\ viteKey = Undef
    /\ procKey = Str(<<>>)
    /\ today = "5/11/2026"
    /\ NoteIdle
    /\ hpc = "unused" /\ hIn = <<>> /\ hOut = <<>>
    /\ ChatIdle
    /\ sessions = <<OldSession>>
    /\ db = sessions
    /\ clock = 10

\* The handlers that can run while a stream is in flight: conversions of
\* documents, recordings and quiz creations; each stream delivers at most
\* one paragraph
NextGate ==
    \/ Len(sends) < MaxSends /\ HandleSend
    \/ \E i \in 1..Len(sends) : sends[i].arrived = <<>> /\ StreamChunk(i, <<PARAGRAPH>>, 0)
    \/ \E i \in 1..MaxSends : StreamEnds(i)
    \/ \E i \in 1..MaxSends : StreamFails(i, FALSE)
    \/ SelectTextFile
    \/ \E ok \in BOOLEAN : ConversionDone(ok)
    \/ StartRecording
    \/ StopRecording
    \/ \E k \in 1..MaxAttach : PreviewLoaded(k)
    \/ \E k \in 1..(2 * MaxSends + 2) : HandleCreateQuiz(k)
    \/ \E resp \in ChatQuizResponses : \E now \in {clock - 1, clock} : QuizCreated(resp, now)

SpecGate == InitChat /\ [][NextGate]_vars

\* The user typing, attaching pictures, sending and moving between
\* conversations while streams are in flight
NextChat ==
    \/ Len(sends) < MaxSends /\ HandleSend
    \/ \E i \in 1..MaxSends : StreamChunk(i, <<PARAGRAPH>>, 0)
    \/ \E i \in 1..MaxSends : StreamEnds(i)
    \/ \E i \in 1..MaxSends : StreamFails(i, FALSE)
    \/ SetInput(<<"t">>)
    \/ SelectVisualFile(ImageType)
    \/ \E k \in 1..MaxAttach : PreviewLoaded(k)
    \/ \E k \in 1..(MaxSends + 1) : LoadSession(k)
    \/ ClearChat

SpecChat == InitChat /\ [][NextChat]_vars

(***************************************************************************)
(* Claims about sends and what runs beside them                             *)
(***************************************************************************)

\* the sends whose stream has not ended
InFlight == {i \in 1..Len(sends) : sends[i].pc = "streaming"}

\* C15: at most one send is in flight at any time: between the gate of
\* handleSend and the end of its stream no second handleSend passes the
\* gate, whatever else runs during the stream.
C15_OneSendInFlight == Cardinality(InFlight) <= 1

\* send i ends in this step
Finishes(i) ==
    /\ i \in 1..Len(sends')
    /\ sends'[i].pc = "done"
    /\ i \in 1..Len(sends) => sends[i].pc # "done"

\* the store holds a session that ends with the two messages of the send
Persisted(send, store) ==
    \E k \in 1..Len(store) :
        LET stored == store[k].messages
        IN  /\ Len(stored) >= 2
            /\ stored[Len(stored) - 1].id = send.userId
            /\ stored[Len(stored)].id = send.aiId
            /\ stored[Len(stored)].text = send.accumulatedText

\* C16: when a handleSend finishes, the store holds a session whose messages
\* end with the user message and the model message of that turn; a send of
\* a fresh conversation adds exactly one session, titled from the text of
\* the user or from the label of the attachment, and a send in a stored
\* conversation keeps the id and the title of its session.
C16_TurnIsPersisted ==
    [][\A i \in 1..MaxSends :
          Finishes(i) =>
              /\ Persisted(sends'[i], db')
              /\ IF sends'[i].sid = 0
                 THEN /\ Len(db') = Len(db) + 1
                      /\ db'[Len(db')].title = sends'[i].title
                 ELSE /\ Len(db') = Len(db)
                      /\ HasSession(db', sends'[i].sid)
                      /\ HasSession(db, sends'[i].sid)
                      /\ FindSession(db', sends'[i].sid).title
                             = FindSession(db, sends'[i].sid).title]_vars

\* the conversation shown is no longer the one send i was made in
MovedOn(i) ==
    /\ i \in InFlight
    /\ ~HasMessage(messages, sends[i].aiId)

\* C20: once the user has loaded another session or cleared the chat while
\* a stream is in flight, the later callbacks of that stream change neither
\* the messages shown nor the session list nor the store.
C20_AbandonedStreamIgnored ==
    [][\A i \in 1..MaxSends :
          MovedOn(i) /\ sends'[i] # sends[i] =>
              /\ messages' = messages
              /\ sessions' = sessions
              /\ db' = db
              /\ currentSessionId' = currentSessionId]_vars

\* the roles of the turns of a request alternate, from one turn to the next
Alternates(contents) ==
    \A k \in 1..(Len(contents) - 1) : contents[k].role # contents[k + 1].role

\* C21: the contents of every request that streamGeminiResponse builds are
\* turns tagged with a role, in the order of the conversation, whose roles
\* alternate strictly between user and model, and the turn being sent is
\* there once, as the last one.
C21_ContentsAlternate ==
    \A i \in 1..Len(sends) :
        sends[i].requested =>
            LET contents == sends[i].contents
            IN  /\ contents # <<>>
                /\ contents[Len(contents)] =
                       [role |-> "user",
                        parts |-> PartsOf(sends[i].visionFiles, sends[i].userText)]
                /\ \A k \in 1..Len(contents) : contents[k].role \in {"user", "model"}
                /\ Alternates(contents)

\* a chunk callback of send i runs in this step
ChunkCallback(i) ==
    /\ i \in InFlight
    /\ sends'[i].pc = "streaming"
    /\ sends'[i].chunks # sends[i].chunks

\* the place of the message that handleSend made for the send: the first
\* message with its id, 0 when the conversation shown has none
OwnPlace(msgs, send) ==
    IF HasMessage(msgs, send.aiId)
    THEN CHOOSE k \in 1..Len(msgs) :
             msgs[k].id = send.aiId /\ \A j \in 1..(k - 1) : msgs[j].id # send.aiId
    ELSE 0

\* C22: a chunk callback of a stream in flight changes only the text of the
\* model message made for its send: every other message, and the id, the
\* role and the timestamp of that message, stay as they are; once the send
\* is finalized no later event changes the text of its message.
C22_ChunkChangesOnlyItsMessage ==
    [][\A i \in 1..MaxSends :
          /\ ChunkCallback(i) =>
                /\ Len(messages') = Len(messages)
                /\ \A k \in 1..Len(messages) :
                      IF k = OwnPlace(messages, sends[i])
                      THEN messages'[k] = [messages[k] EXCEPT !.text = sends'[i].accumulatedText]
                      ELSE messages'[k] = messages[k]
                /\ sessions' = sessions
                /\ db' = db
          /\ i \in 1..Len(sends) /\ sends[i].pc = "done" =>
                LET k == OwnPlace(messages, sends[i])
                IN  k # 0 /\ k = OwnPlace(messages', sends[i])
                        => messages'[k].text = messages[k].text]_vars

\* The user sending in stored conversations and deleting them
NextDelete ==
    \/ Len(sends) < MaxSends /\ HandleSend
    \/ \E i \in 1..MaxSends : StreamChunk(i, <<PARAGRAPH>>, 0)
    \/ \E i \in 1..MaxSends : StreamEnds(i)
    \/ \E i \in 1..MaxSends : StreamFails(i, FALSE)
    \/ SetInput(<<"t">>)
    \/ \E k \in 1..(MaxSends + 1) : LoadSession(k)
    \/ \E k \in 1..(MaxSends + 1) : ConfirmDelete(k)

SpecDelete == InitChat /\ [][NextDelete]_vars

\* the ids of the sessions of a list
SessionIds(list) == {list[k].id : k \in 1..Len(list)}

\* C23: a session deleted through confirmDelete stays deleted: a record
\* enters the store or the session list only under an id made at that
\* moment, never under the id of a session that was there before, whatever
\* completes later.
C23_DeletedStaysDeleted ==
    [][/\ \A id \in SessionIds(db') \ SessionIds(db) : id >= clock
       /\ \A id \in SessionIds(sessions') \ SessionIds(sessions) : id >= clock]_vars

\* every message shown is among the messages of the current session in list
HoldsConversation(list) ==
    /\ HasSession(list, currentSessionId)
    /\ \A k \in 1..Len(messages) :
          \E j \in 1..Len(FindSession(list, currentSessionId).messages) :
              FindSession(list, currentSessionId).messages[j] = messages[k]

\* a quiz message is shown
QuizShown == \E k \in 1..Len(messages) : messages[k].quiz # <<>>

\* C24: when a quiz creation and a send overlap in a session, neither write
\* overwrites the other: once both have completed, the stored session and
\* the session of the list hold every message shown in the conversation,
\* the two messages of the turn and the quiz message.
C24_QuizAndSendBothKept ==
    /\ sends # <<>>
    /\ InFlight = {}
    /\ ~quizJob.active
    /\ QuizShown
    /\ currentSessionId # 0
    => HoldsConversation(db) /\ HoldsConversation(sessions)

(***************************************************************************)
(* Claims about the two quiz views                                          *)
(***************************************************************************)

\* every entry that offers options has an answer recorded
AllOfferedAnswered ==
    \A i \in 1..Len(hIn) : OptionsOf(hIn[i]) # {} => hOut.answers[i] # Undef

\* C27: for every quiz attached to a chat message, essays included, the
\* button that checks the answers of the chat quiz view is enabled once the
\* user has answered every question that offers options.
C27_ChatCheckEnabled ==
    /\ hpc = "chat"
    /\ \A i \in 1..Len(hIn) : hIn[i].options.k = "array"
    /\ AllOfferedAnswered
    => AnsweredCount(hOut.answers) >= Len(hIn)

\* C28: in the quiz view of a note every question counted by countMCQ and
\* calculateScore is shown with options to choose from, so that for every
\* quiz regenerateQuiz can return the button that checks the results is
\* enabled once every question that can be answered has its answer.
C28_NoteCheckEnabled ==
    hpc = "note" =>
        /\ \A i \in 1..Len(hIn) :
              IsMcqEntry(hIn[i]) => RenderedAsMcq(hIn[i]) /\ OptionsOf(hIn[i]) # {}
        /\ (\A i \in 1..Len(hIn) :
               RenderedAsMcq(hIn[i]) /\ OptionsOf(hIn[i]) # {} => hOut.answers[i] # Undef)
           => AnsweredCount(hOut.answers) >= CountMCQ(hIn)

(***************************************************************************)
(* The note page: the quiz of a note, its regeneration and the edits of     *)
(* the note, with the asynchronous note update of the application           *)
(***************************************************************************)

\* variants of the handling of the regeneration result below
AfterRegenerationAlways(view, note, outcome) ==
    [view EXCEPT !.newQuiz = outcome.value,
                 !.updates = Append(@, [note |-> [note EXCEPT !.quiz = outcome.value],
                                        from |-> "regenerate"]),
                 !.quizAnswers = [i \in 1..MaxQuiz |-> Undef],
                 !.showResults = FALSE,
                 !.isRegenerating = FALSE,
                 !.calls = @ - 1]

\* the quiz of the note that is opened, and the quiz a regeneration gives
StoredQuiz == <<AsMcq(McqObject(<<"q1">>, <<"3", "4">>, "4"))>>
NewQuizValue == QuizObject(<<McqObject(<<"q7">>, <<"5", "6">>, "5")>>, <<EssayObject(<<"t1">>, "k")>>)
RegenerateResponses == {ErrorResponse, TextResponse(<<>>), TextResponse(Stringify(NewQuizValue))}

OpenedNote ==
    [title |-> <<"T">>, content |-> <<"c">>, sourceFileNames |-> <<"a.png">>,
     quiz |-> StoredQuiz]

\* the state of a NoteDetailPage just opened, with the updates of the
\* application that wait for db.saveNote
PageOpened ==
    [quizAnswers |-> [i \in 1..MaxQuiz |-> Undef],
     showResults |-> FALSE,
     isRegenerating |-> FALSE,
     calls |-> 0,                    \* regenerateQuiz calls in flight
     closure |-> OpenedNote,         \* note, as the call in flight holds it
     newQuiz |-> <<>>,               \* what the last call returned
     isEditing |-> FALSE,
     editedTitle |-> OpenedNote.title,
     editedContent |-> OpenedNote.content,
     editedSourceNames |-> OpenedNote.sourceFileNames,
     updates |-> <<>>]

\* hpc is "page", hIn the note: the prop of the page and the stored record,
\* hOut the state of the page
InitRegen ==
    /\ localKey = Str(<<"k1">>)
    /\ viteKey = Undef
    /\ procKey = Str(<<>>)
    /\ today = "5/11/2026"
    /\ NoteIdle
    /\ ChatUnused
    /\ hpc = "page"
    /\ hIn = [note |-> OpenedNote, stored |-> OpenedNote]
    /\ hOut = PageOpened

\* the effect that resets the edit state when note or isEditing changes
ResetEditState(view, note) ==
    [view EXCEPT !.editedTitle = note.title,
                 !.editedContent = note.content,
                 !.editedSourceNames = note.sourceFileNames]

\* the quiz tab shows the questions
QuestionsShown == ~hOut.isEditing /\ ~hOut.isRegenerating

\* handleAnswer, from an option button of the quiz tab
AnswerOnPage(qIndex, option) ==
    /\ QuestionsShown
    /\ qIndex \in 1..Len(hIn.note.quiz)
    /\ RenderedAsMcq(hIn.note.quiz[qIndex])
    /\ option \in OptionsOf(hIn.note.quiz[qIndex])
    /\ ~hOut.showResults
    /\ hOut.quizAnswers[qIndex] # option
    /\ hOut' = [hOut EXCEPT !.quizAnswers[qIndex] = option]
    /\ UNCHANGED <<hpc, hIn, noteVars, chatVars>>

\* the "Cek Hasil" button
CheckOnPage ==
    /\ QuestionsShown
    /\ ~hOut.showResults
    /\ AnsweredCount(hOut.quizAnswers) >= CountMCQ(hIn.note.quiz)
    /\ hOut' = [hOut EXCEPT !.showResults = TRUE]
    /\ UNCHANGED <<hpc, hIn, noteVars, chatVars>>

\* handleRegenerateQuiz up to the await of regenerateQuiz; its button is in
\* the results panel
HandleRegenerateQuiz ==
    /\ ~hOut.isEditing
    /\ hOut.showResults
    /\ ~hOut.isRegenerating
    /\ hOut' = [hOut EXCEPT !.isRegenerating = TRUE, !.calls = @ + 1,
                            !.closure = hIn.note]
    /\ UNCHANGED <<hpc, hIn, noteVars, chatVars>>

\* handleRegenerateQuiz after regenerateQuiz has settled: the try block, the
\* catch block and the finally block
AfterRegeneration(view, note, outcome) ==
    IF ~outcome.raised /\ outcome.value # <<>>
    THEN [view EXCEPT !.newQuiz = outcome.value,
                      !.updates = Append(@, [note |-> [note EXCEPT !.quiz = outcome.value],
                                             from |-> "regenerate"]),
                      !.quizAnswers = [i \in 1..MaxQuiz |-> Undef],
                      !.showResults = FALSE,
                      !.isRegenerating = FALSE,
                      !.calls = @ - 1]
    ELSE [view EXCEPT !.newQuiz = <<>>, !.isRegenerating = FALSE, !.calls = @ - 1]

RegenerationReturns(resp) ==
    /\ hOut.calls > 0
    /\ Len(hOut.updates) < MaxUpdates
    /\ LET outcome == IF HasClient THEN QuizFromResponse(resp) ELSE NoQuizOutcome
       IN  hOut' = AfterRegeneration(hOut, hOut.closure, outcome)
    /\ UNCHANGED <<hpc, hIn, noteVars, chatVars>>

\* the edit button and the "Batal" button
SetIsEditing(on) ==
    /\ hOut.isEditing # on
    /\ hOut' = ResetEditState([hOut EXCEPT !.isEditing = on], hIn.note)
    /\ UNCHANGED <<hpc, hIn, noteVars, chatVars>>

\* the user edits the note: the title field, the content field and the
\* remove button of the first source
EditNote ==
    /\ hOut.isEditing
    /\ hOut.editedTitle # <<"T2">>
    /\ hOut' = [hOut EXCEPT !.editedTitle = <<"T2">>,
                            !.editedContent = <<"c2">>,
                            !.editedSourceNames = RemoveAt(@, 0)]
    /\ UNCHANGED <<hpc, hIn, noteVars, chatVars>>

\* handleSave of the note page: onUpdateNote, setIsEditing(false)
SaveEditedNote ==
    /\ hOut.isEditing
    /\ Len(hOut.updates) < MaxUpdates
    /\ LET updatedNote == [hIn.note EXCEPT !.title = hOut.editedTitle,
                                           !.content = hOut.editedContent,
                                           !.sourceFileNames = hOut.editedSourceNames]
       IN  hOut' = ResetEditState(
                       [hOut EXCEPT !.updates = Append(@, [note |-> updatedNote, from |-> "save"]),
                                    !.isEditing = FALSE],
                       hIn.note)
    /\ UNCHANGED <<hpc, hIn, noteVars, chatVars>>

\* handleUpdateNote once db.saveNote has written: setNotes, setSelectedNote,
\* and the effect of the page on its new note
HandleUpdateNote ==
    /\ hOut.updates # <<>>
    /\ LET updatedNote == Head(hOut.updates).note
       IN  /\ hIn' = [note |-> updatedNote, stored |-> updatedNote]
           /\ hOut' = ResetEditState([hOut EXCEPT !.updates = Tail(@)], updatedNote)
    /\ UNCHANGED <<hpc, noteVars, chatVars>>

NextRegen ==
    \/ \E i \in 1..MaxQuiz : \E o \in UNION {OptionsOf(q) : q \in ScorePool \cup {AsMcq(McqObject(<<"q7">>, <<"5", "6">>, "5"))}} :
          AnswerOnPage(i, o)
    \/ CheckOnPage
    \/ HandleRegenerateQuiz
    \/ \E resp \in RegenerateResponses : RegenerationReturns(resp)
    \/ \E on \in BOOLEAN : SetIsEditing(on)
    \/ EditNote
    \/ SaveEditedNote
    \/ HandleUpdateNote

SpecRegen == InitRegen /\ [][NextRegen]_vars

(***************************************************************************)
(* Claims about the note page                                               *)
(***************************************************************************)

\* the store write of the oldest waiting update is done in this step
UpdateWritten ==
    /\ hOut.updates # <<>>
    /\ Len(hOut'.updates) < Len(hOut.updates)

\* C25: an edit of the note saved by handleSave while a regeneration of its
\* quiz is in flight is not lost: the write that the regeneration makes
\* leaves the title, the content and the sources of the stored note as the
\* edit has set them, and brings the new quiz.
C25_EditSurvivesRegeneration ==
    [][UpdateWritten /\ Head(hOut.updates).from = "regenerate" =>
          /\ hIn'.stored.title = hIn.stored.title
          /\ hIn'.stored.content = hIn.stored.content
          /\ hIn'.stored.sourceFileNames = hIn.stored.sourceFileNames
          /\ hIn'.stored.quiz = Head(hOut.updates).note.quiz]_vars

\* C26: in the quiz view of a note every recorded answer quizAnswers[i] is
\* one of the options of question i of the quiz the note has now; no answer
\* given to the quiz of before stays after the regeneration.
C26_AnswersAmongOptions ==
    hpc = "page" =>
        \A i \in 1..MaxQuiz :
            hOut.quizAnswers[i] # Undef =>
                /\ i <= Len(hIn.note.quiz)
                /\ hOut.quizAnswers[i] \in OptionsOf(hIn.note.quiz[i])

\* a regenerateQuiz call settles in this step
RegenerationSettles == hOut.calls > 0 /\ hOut'.calls < hOut.calls

-----------------------------------------------------------------------------
(* Specification of handleCreateNote with every outcome of its awaits: the  *)
(* reading of a visual file may fail and the store may reject the write.    *)
(* Each await that settles lets the handler go on, hence the weak fairness  *)
(* of its continuation.                                                     *)

\* a FileReader fails on a visual file: only onload is set, so the promise
\* of that file, and with it Promise.all, never settles
FileReadFails ==
    /\ pc = "reading"
    /\ images > 0
    /\ pc' = "unread"
    /\ UNCHANGED <<localKey, viteKey, procKey, today, isCreatingNote, contextText,
                   images, ai, calls, contentResp, quizResp, summary, notes,
                   harnessVars, chatVars>>

\* db.saveNote rejects: the await raises and handleCreateNote ends there
SaveNoteRejected ==
    /\ pc = "summarized"
    /\ ~summary.raised
    /\ pc' = "unsaved"
    /\ UNCHANGED <<localKey, viteKey, procKey, today, isCreatingNote, contextText,
                   images, ai, calls, contentResp, quizResp, summary, notes,
                   harnessVars, chatVars>>

\* the steps handleCreateNote takes once it is started
CreateNoteProceeds ==
    \/ CallGenerateNoteSummary
    \/ FileReadFails
    \/ \E resp \in NoteContentResponses : ContentResponds(resp)
    \/ \E resp \in NoteQuizResponses : QuizResponds(resp)
    \/ SaveNote
    \/ SaveNoteRejected

NextCreate ==
    \/ \E key \in LocalKeys : StorageChanged(key)
    \/ \E v \in {0, 1} : \E t \in TextFileChoices : HandleCreateNote(v, t)
    \/ CallGenerateNoteSummary
    \/ FileReadFails
    \/ \E resp \in NoteContentResponses : ContentResponds(resp)
    \/ \E resp \in NoteQuizResponses : QuizResponds(resp)
    \/ SaveNote
    \/ SaveNoteRejected

SpecCreate == Init /\ [][NextCreate]_vars /\ WF_vars(CreateNoteProceeds)

\* C29: every note-creation attempt eventually clears isCreatingNote,
\* whatever the outcome of the extraction, of the file reading, of the note
\* generation and of the store write
C29_CreatingFlagCleared == isCreatingNote ~> ~isCreatingNote

====
